---------------------------- MODULE Spec2Model ----------------------------
(***************************************************************************)
(* A model of the Orion compiler's runtime library (compiler/runtime.c:    *)
(* the dynamic list, the hash-keyed dictionary, the lazy range), of its    *)
(* recursive-descent parser and of its x86-64 code generator, whose output *)
(* is run on a machine of W-bit registers.                                 *)
(*                                                                         *)
(* int64_t and size_t are modelled with W bits instead of 64: signed       *)
(* values live in INT_MIN..INT_MAX and wrap mod 2^W, byte counts are       *)
(* unsigned mod 2^W.  A call of the runtime is one action; exit(1) ends    *)
(* the program (status = "abort"), so no action is enabled afterwards.     *)
(* Undefined behaviour (a write past a buffer, signed overflow) is a       *)
(* choice between the outcome of a wrapping build and a crash.             *)
(***************************************************************************)
EXTENDS Integers, Sequences, FiniteSets, TLC

VARIABLES
    status,     \* "running" | "abort" (diagnostic + exit(1)) | "crash" | "hang"
    mem,        \* "intact" | "corrupt" (some call wrote past a buffer)
    call,       \* the last runtime call made: [op, p, q, a, b]
    ret,        \* the integer the last call returned (0 for void)
    lists,      \* the OrionList objects of the heap, by address
    result,     \* the OrionList the last call returned (NoList if none)
    dict,       \* the OrionDict object
    dmap,       \* history: the finite map the dictionary stands for
    range,      \* the OrionRange object
    tokens,     \* Parser::tokens
    current,    \* Parser::current
    program,    \* Program::statements built so far by Parser::parse
    perror,     \* an exception has left Parser::parse
    expect,     \* history: the program the grammar assigns to the tokens
    source,     \* the Program handed to CodeGenerator::generate
    output,     \* CodeGenerator::output, the assembly emitted
    cpu,        \* the machine running the assembled output
    backend,    \* the TargetBackend createTargetBackend returned
    reservation \* the last getStackReservation call and what it returned

commonVars == <<status, mem, call, ret>>
listVars   == <<lists, result>>
dictVars   == <<dict, dmap>>
rangeVars  == <<range>>
parserVars == <<tokens, current, program, perror, expect>>
backendVars == <<backend, reservation>>
compilerVars == <<source, output, cpu, backend, reservation>>
vars == <<status, mem, call, ret, lists, result, dict, dmap, range,
          tokens, current, program, perror, expect, source, output, cpu,
          backend, reservation>>

---------------------------------------------------------------------------
(* Machine integers *)

W == 8                      \* model width of int64_t and size_t
MaxLen == 2                 \* the caller grows a list up to this size

ElemBytes == 8              \* sizeof(int64_t)
MinListCap == 4             \* list_new's minimum capacity

Half == 2^(W-1)
INT_MAX == Half - 1
INT_MIN == -Half
SIZE_MOD == 2^W

Max(a, b) == IF a >= b THEN a ELSE b
Min(a, b) == IF a <= b THEN a ELSE b
Abs(a) == IF a < 0 THEN -a ELSE a

\* signed result of an int64_t operation as a wrapping build computes it
Wrap(x) == ((x + Half) % SIZE_MOD) - Half
\* conversion of a signed value to size_t
ToUnsigned(x) == x % SIZE_MOD
InInt(x) == INT_MIN <= x /\ x <= INT_MAX
\* C's integer division truncates toward zero
CDiv(a, b) == IF (a >= 0) = (b > 0) THEN Abs(a) \div Abs(b)
              ELSE -(Abs(a) \div Abs(b))

NULL == 0

---------------------------------------------------------------------------
(* Outcomes of a runtime call *)

NoList == [live |-> FALSE, size |-> 0, capacity |-> 0, alloc |-> 0, data |-> <<>>]

Out(st, ls, res, r, oob) ==
    [st |-> st, lists |-> ls, res |-> res, ret |-> r, oob |-> oob]
\* fprintf(stderr, "Error: ..."); exit(1);
Aborted(ls) == Out("abort", ls, NoList, 0, FALSE)
Returned(ls, res, r) == Out("running", ls, res, r, FALSE)
\* the call wrote past the end of a buffer: the program goes on with a
\* corrupted heap, or is killed by the fault
Overrun(ls, res, r) == {Out("running", ls, res, r, TRUE),
                        Out("crash", ls, res, r, TRUE)}

\* malloc/realloc: the usable size of the block in bytes, or -1 for NULL
orion_malloc(size) == {-1, size}
orion_realloc(size) == IF size = 0 THEN {-1} ELSE {-1, size}

---------------------------------------------------------------------------
(* The list: runtime.c lines 26-296 *)

ListAddrs == {1, 2}
ListPtrs == {NULL} \cup ListAddrs

\* list_new: the list, or NoList when an allocation failed (exit(1))
list_new(initial_capacity) ==
    LET cap == IF initial_capacity < MinListCap THEN MinListCap
               ELSE initial_capacity
        bytes == ToUnsigned(ElemBytes * cap)
    IN  { IF m < 0 THEN NoList
          ELSE [live |-> TRUE, size |-> 0, capacity |-> cap,
                alloc |-> m \div ElemBytes, data |-> <<>>]
          : m \in orion_malloc(bytes) }

Prefix(s, n) == [i \in 1..Max(0, Min(n, Len(s))) |-> s[i]]

list_from_data(ls, elements, count) ==
    UNION { IF ~l.live THEN {Aborted(ls)}
            ELSE LET res == [l EXCEPT !.size = count,
                                      !.data = Prefix(elements, count)]
                 IN  IF count > l.alloc THEN Overrun(ls, res, 0)
                     ELSE {Returned(ls, res, 0)}
          : l \in list_new(IF count > 4 THEN count ELSE 4) }

\* list_len without its null check's exit
list_len_nullable(ls, p) ==
    IF p = NULL THEN {Returned(ls, NoList, 0)}
    ELSE {Returned(ls, NoList, ls[p].size)}

list_len(ls, p) ==
    IF p = NULL THEN {Aborted(ls)}
    ELSE {Returned(ls, NoList, ls[p].size)}

\* normalize_index without the Python-style "index += list->size"
normalize_index_nonneg(list, index) ==
    IF index < 0 \/ index >= list.size THEN [ok |-> FALSE, index |-> 0]
    ELSE [ok |-> TRUE, index |-> index]

\* normalize_index: ok = FALSE stands for the "index out of range" exit
normalize_index(list, index) ==
    LET i == IF index < 0 THEN Wrap(index + list.size) ELSE index
    IN  IF i < 0 \/ i >= list.size THEN [ok |-> FALSE, index |-> 0]
        ELSE [ok |-> TRUE, index |-> i]

list_get(ls, p, index) ==
    IF p = NULL THEN {Aborted(ls)}
    ELSE LET n == normalize_index(ls[p], index)
         IN  IF ~n.ok THEN {Aborted(ls)}
             ELSE {Returned(ls, NoList, ls[p].data[n.index + 1])}

list_set(ls, p, index, value) ==
    IF p = NULL THEN {Aborted(ls)}
    ELSE LET n == normalize_index(ls[p], index)
         IN  IF ~n.ok THEN {Aborted(ls)}
             ELSE {Returned([ls EXCEPT ![p].data[n.index + 1] = value],
                            NoList, 0)}

list_resize(ls, p, new_capacity) ==
    IF p = NULL THEN {Returned(ls, NoList, 0)}
    ELSE IF ToUnsigned(new_capacity) > INT_MAX \div ElemBytes
         THEN {Aborted(ls)}
    ELSE { IF m < 0 THEN Aborted(ls)
           ELSE Returned([ls EXCEPT ![p].capacity = new_capacity,
                                    ![p].alloc = m \div ElemBytes],
                         NoList, 0)
           : m \in orion_realloc(ToUnsigned(ElemBytes * new_capacity)) }

\* the rest of a call after an inner call: exit(1) inside ends it
Then(outs, K(_)) ==
    UNION { IF o.st = "running" THEN K(o.lists) ELSE {o} : o \in outs }

\* a write of elements first..last (0-based) of list l's buffer
Store(ls, res, r, l, last) ==
    IF last >= l.alloc THEN Overrun(ls, res, r) ELSE {Returned(ls, res, r)}

list_append(ls, p, value) ==
    IF p = NULL THEN {Aborted(ls)}
    ELSE LET grown == IF ls[p].size >= ls[p].capacity
                      THEN list_resize(ls, p, Wrap(ls[p].capacity * 2))
                      ELSE {Returned(ls, NoList, 0)}
             Put(l2) == Store([l2 EXCEPT ![p].data = Append(l2[p].data, value),
                                         ![p].size = l2[p].size + 1],
                              NoList, 0, l2[p], l2[p].size)
         IN  Then(grown, Put)

list_pop(ls, p) ==
    IF p = NULL THEN {Aborted(ls)}
    ELSE IF ls[p].size = 0 THEN {Aborted(ls)}
    ELSE LET n == ls[p].size - 1
             value == ls[p].data[n + 1]
             l1 == [ls EXCEPT ![p].size = n, ![p].data = Prefix(ls[p].data, n)]
         IN  IF n < CDiv(ls[p].capacity, 4) /\ ls[p].capacity > 8
             THEN { [o EXCEPT !.ret = IF o.st = "running" THEN value ELSE 0]
                    : o \in list_resize(l1, p, CDiv(ls[p].capacity, 2)) }
             ELSE {Returned(l1, NoList, value)}

InsertAt(s, i, v) ==
    [k \in 1..(Len(s) + 1) |->
        IF k <= i THEN s[k] ELSE IF k = i + 1 THEN v ELSE s[k - 1]]

\* list_insert without the "index += list->size" of a negative index
list_insert_nonneg(ls, p, index, value) ==
    IF p = NULL THEN {Aborted(ls)}
    ELSE IF index < 0 \/ index > ls[p].size THEN {Aborted(ls)}
    ELSE LET grown == IF ls[p].size >= ls[p].capacity
                      THEN list_resize(ls, p, Wrap(ls[p].capacity * 2))
                      ELSE {Returned(ls, NoList, 0)}
             Put(l2) ==
                 Store([l2 EXCEPT ![p].data = InsertAt(l2[p].data, index, value),
                                  ![p].size = l2[p].size + 1],
                       NoList, 0, l2[p], l2[p].size)
         IN  Then(grown, Put)

list_insert(ls, p, index, value) ==
    IF p = NULL THEN {Aborted(ls)}
    ELSE LET i == IF index < 0 THEN Wrap(index + ls[p].size) ELSE index
         IN  IF i < 0 \/ i > ls[p].size THEN {Aborted(ls)}
             ELSE LET grown == IF ls[p].size >= ls[p].capacity
                               THEN list_resize(ls, p, Wrap(ls[p].capacity * 2))
                               ELSE {Returned(ls, NoList, 0)}
                      Put(l2) ==
                          Store([l2 EXCEPT ![p].data = InsertAt(l2[p].data, i, value),
                                           ![p].size = l2[p].size + 1],
                                NoList, 0, l2[p], l2[p].size)
                  IN  Then(grown, Put)

list_concat(ls, p1, p2) ==
    IF p1 = NULL \/ p2 = NULL THEN {Aborted(ls)}
    ELSE LET total_size == Wrap(ls[p1].size + ls[p2].size)
         IN  UNION { IF ~l.live THEN {Aborted(ls)}
                     ELSE LET res == [l EXCEPT !.size = total_size,
                                               !.data = ls[p1].data \o ls[p2].data]
                          IN  Store(ls, res, 0, l, total_size - 1)
                   : l \in list_new(total_size) }

\* count copies of s, one after the other
Repeat(s, count) == [i \in 1..(Len(s) * count) |-> s[((i - 1) % Len(s)) + 1]]

list_repeat(ls, p, count) ==
    IF p = NULL THEN {Aborted(ls)}
    ELSE IF count < 0 THEN {Aborted(ls)}
    ELSE IF count = 0 \/ ls[p].size = 0
         THEN { IF ~l.live THEN Aborted(ls) ELSE Returned(ls, l, 0)
                : l \in list_new(4) }
    ELSE IF ls[p].size > CDiv(INT_MAX, count) THEN {Aborted(ls)}
    ELSE LET total_size == ls[p].size * count
         IN  UNION { IF ~l.live THEN {Aborted(ls)}
                     ELSE LET res == [l EXCEPT !.size = total_size,
                                               !.data = Repeat(ls[p].data, count)]
                          IN  Store(ls, res, 0, l, total_size - 1)
                   : l \in list_new(total_size) }

\* while (new_capacity < new_size) new_capacity *= 2;  0 when the doubling
\* leaves the int64_t range (undefined behaviour)
RECURSIVE GrowCapacity(_, _)
GrowCapacity(new_capacity, new_size) ==
    IF new_capacity >= new_size THEN new_capacity
    ELSE IF new_capacity <= 0 \/ 2 * new_capacity > INT_MAX THEN 0
    ELSE GrowCapacity(2 * new_capacity, new_size)

list_extend(ls, p1, p2) ==
    IF p1 = NULL \/ p2 = NULL THEN {Aborted(ls)}
    ELSE LET new_size == Wrap(ls[p1].size + ls[p2].size)
             new_capacity == GrowCapacity(ls[p1].capacity, new_size)
             grown == IF new_size > ls[p1].capacity
                      THEN IF new_capacity = 0
                           THEN {Out("crash", ls, NoList, 0, FALSE),
                                 Out("hang", ls, NoList, 0, FALSE)}
                           ELSE list_resize(ls, p1, new_capacity)
                      ELSE {Returned(ls, NoList, 0)}
             Put(l2) ==
                 Store([l2 EXCEPT ![p1].data = l2[p1].data \o l2[p2].data,
                                  ![p1].size = new_size],
                       NoList, 0, l2[p1], new_size - 1)
         IN  Then(grown, Put)

\* list_print writes to stdout and changes nothing
list_print(ls, p) == {Returned(ls, NoList, 0)}

---------------------------------------------------------------------------
(* The dictionary: runtime.c lines 665-1127.  A key is [kt, ik, sk]: an    *)
(* integer key (kt = "int", ik) or a string key (kt = "str", sk a sequence *)
(* of character codes).  Sizes stay far below 2^63 here, and the keys are  *)
(* short enough that the 64-bit hashes are computed exactly.               *)

KnuthHi == 40503            \* 2654435761 = KnuthHi * 2^16 + KnuthLo
KnuthLo == 31153
MinDictCap == 8             \* dict_new's minimum capacity

IntKey(k) == [kt |-> "int", ik |-> k, sk |-> <<>>]
StrKey(s) == [kt |-> "str", ik |-> 0, sk |-> s]
\* a NULL char*: no C string holds the character 0
NullStr == <<0>>

NoDict == [live |-> FALSE, size |-> 0, capacity |-> 0, buckets |-> <<>>]

DOut(st, d, r) == [st |-> st, dict |-> d, ret |-> r]
DAborted(d) == DOut("abort", d, 0)
DReturned(d, r) == DOut("running", d, r)

RECURSIVE Djb2(_, _)
Djb2(str, hash) ==
    IF str = <<>> THEN hash ELSE Djb2(Tail(str), hash * 33 + Head(str))

dict_hash_string(str, capacity) == Djb2(str, 5381) % capacity

MulMod(a, b, m) == ((a % m) * (b % m)) % m
\* 2^64 mod m
Pow64Mod(m) == LET p32 == MulMod(65536, 65536, m) IN MulMod(p32, p32, m)

\* ((uint64_t)key * 2654435761ULL) % capacity, for |key| < 2^32
dict_hash_int(key, capacity) ==
    LET knuth == (MulMod(KnuthHi, 65536, capacity) + KnuthLo) % capacity
        prod == MulMod(Abs(key), knuth, capacity)
    IN  IF key >= 0 THEN prod
        ELSE (Pow64Mod(capacity) - prod) % capacity

dict_hash(entry, capacity) ==
    IF entry.key.kt = "str" THEN dict_hash_string(entry.key.sk, capacity)
    ELSE dict_hash_int(entry.key.ik, capacity)

dict_keys_equal(entry1, key2) ==
    IF entry1.key.kt # key2.kt THEN FALSE
    ELSE IF key2.kt = "str" THEN entry1.key.sk = key2.sk
    ELSE entry1.key.ik = key2.ik

\* a lookup that inspects only the head of the chain
ChainFindHead(chain, key, i) ==
    IF chain # <<>> /\ dict_keys_equal(chain[1], key) THEN 1 ELSE 0

\* the position in a chain of the first entry with the key, 0 if none
RECURSIVE ChainFind(_, _, _)
ChainFind(chain, key, i) ==
    IF i > Len(chain) THEN 0
    ELSE IF dict_keys_equal(chain[i], key) THEN i
    ELSE ChainFind(chain, key, i + 1)

\* bucket index (1-based) of a key in the table
BucketOf(d, key) ==
    1 + (IF key.kt = "str" THEN dict_hash_string(key.sk, d.capacity)
         ELSE dict_hash_int(key.ik, d.capacity))

dict_new(initial_capacity) ==
    LET cap == IF initial_capacity < MinDictCap THEN MinDictCap
               ELSE initial_capacity
    IN  { IF m < 0 THEN NoDict
          ELSE [live |-> TRUE, size |-> 0, capacity |-> cap,
                buckets |-> [i \in 1..cap |-> <<>>]]
          : m \in orion_malloc(ElemBytes * cap) }

dict_len(d, p) == IF p = NULL THEN {DAborted(d)} ELSE {DReturned(d, d.size)}

\* dict_get_int / dict_get_string after their null checks
DictLookup(d, key) ==
    LET chain == d.buckets[BucketOf(d, key)]
        i == ChainFind(chain, key, 1)
    IN  IF i = 0 THEN {DAborted(d)} ELSE {DReturned(d, chain[i].value)}

dict_get_int(d, p, key) ==
    IF p = NULL THEN {DAborted(d)} ELSE DictLookup(d, IntKey(key))

dict_get_string(d, p, key) ==
    IF p = NULL THEN {DAborted(d)}
    ELSE IF key = NullStr THEN {DAborted(d)}
    ELSE DictLookup(d, StrKey(key))

DictHas(d, key) ==
    IF ChainFind(d.buckets[BucketOf(d, key)], key, 1) # 0
    THEN {DReturned(d, 1)} ELSE {DReturned(d, 0)}

dict_has_key_int(d, p, key) ==
    IF p = NULL THEN {DAborted(d)} ELSE DictHas(d, IntKey(key))

dict_has_key_string(d, p, key) ==
    IF p = NULL THEN {DAborted(d)}
    ELSE IF key = NullStr THEN {DReturned(d, 0)}
    ELSE DictHas(d, StrKey(key))

\* the entries of the old table in the order dict_resize walks them
RECURSIVE OldEntries(_, _)
OldEntries(buckets, i) ==
    IF i > Len(buckets) THEN <<>>
    ELSE buckets[i] \o OldEntries(buckets, i + 1)

\* each entry is pushed at the head of its new bucket
RECURSIVE Rehash(_, _, _)
Rehash(entries, buckets, capacity) ==
    IF entries = <<>> THEN buckets
    ELSE LET e == Head(entries)
             b == 1 + dict_hash(e, capacity)
         IN  Rehash(Tail(entries),
                    [buckets EXCEPT ![b] = <<e>> \o buckets[b]], capacity)

\* a resize that leaves every chain at its old bucket index
dict_resize_unhashed(d) ==
    { IF m < 0 THEN NoDict
      ELSE [live |-> TRUE, size |-> d.size, capacity |-> d.capacity * 2,
            buckets |-> [i \in 1..(d.capacity * 2) |->
                            IF i <= d.capacity THEN d.buckets[i] ELSE <<>>]]
      : m \in orion_malloc(ElemBytes * d.capacity * 2) }

\* dict_resize on a non-null dictionary: the dictionary, or NoDict when the
\* allocation failed (exit(1))
dict_resize(d) ==
    LET capacity == d.capacity * 2
        old == OldEntries(d.buckets, 1)
    IN  { IF m < 0 THEN NoDict
          ELSE [live |-> TRUE, size |-> Len(old), capacity |-> capacity,
                buckets |-> Rehash(old, [i \in 1..capacity |-> <<>>], capacity)]
          : m \in orion_malloc(ElemBytes * capacity) }

\* a resize only above the threshold
NeedsResizeStrict(d) == d.size > CDiv(d.capacity * 3, 4)

\* if (dict->size >= dict->capacity * 3 / 4)
NeedsResize(d) == d.size >= CDiv(d.capacity * 3, 4)

\* dict_set_int / dict_set_string after their null checks
DictStore(d, key, value) ==
    LET resized == IF NeedsResize(d) THEN dict_resize(d) ELSE {d}
    IN  UNION {
          IF ~d1.live THEN {DAborted(d)}
          ELSE LET b == BucketOf(d1, key)
                   i == ChainFind(d1.buckets[b], key, 1)
               IN  IF i # 0
                   THEN {DReturned([d1 EXCEPT !.buckets[b][i].value = value], 0)}
                   ELSE { IF m < 0 THEN DAborted(d1)
                          ELSE DReturned(
                                 [d1 EXCEPT !.buckets[b] =
                                                <<[key |-> key, value |-> value]>>
                                                \o d1.buckets[b],
                                            !.size = d1.size + 1], 0)
                          : m \in orion_malloc(4 * ElemBytes) }
          : d1 \in resized }

dict_set_int(d, p, key, value) ==
    IF p = NULL THEN {DAborted(d)} ELSE DictStore(d, IntKey(key), value)

dict_set_string(d, p, key, value) ==
    IF p = NULL THEN {DAborted(d)}
    ELSE IF key = NullStr THEN {DAborted(d)}
    ELSE DictStore(d, StrKey(key), value)

RemoveAt(s, i) == [k \in 1..(Len(s) - 1) |-> IF k < i THEN s[k] ELSE s[k + 1]]

\* dict_remove_int / dict_remove_string after their null checks
DictUnlink(d, key) ==
    LET b == BucketOf(d, key)
        i == ChainFind(d.buckets[b], key, 1)
    IN  IF i = 0 THEN {DAborted(d)}
        ELSE {DReturned([d EXCEPT !.buckets[b] = RemoveAt(d.buckets[b], i),
                                  !.size = d.size - 1], 0)}

dict_remove_int(d, p, key) ==
    IF p = NULL THEN {DAborted(d)} ELSE DictUnlink(d, IntKey(key))

dict_remove_string(d, p, key) ==
    IF p = NULL THEN {DAborted(d)}
    ELSE IF key = NullStr THEN {DAborted(d)}
    ELSE DictUnlink(d, StrKey(key))

\* void dict_resize(OrionDict* dict) called directly
dict_resize_call(d, p) ==
    IF p = NULL THEN {DReturned(d, 0)}
    ELSE { IF ~d1.live THEN DAborted(d) ELSE DReturned(d1, 0)
           : d1 \in dict_resize(d) }

dict_free(d, p) ==
    IF p = NULL THEN {DReturned(d, 0)} ELSE {DReturned(NoDict, 0)}

---------------------------------------------------------------------------
(* Type-aware collection access: runtime.c lines 1129-1234.  An object is  *)
(* [type, p]: the pointer and the type tag its first word holds.           *)

ORION_TYPE_LIST == 1
ORION_TYPE_DICT == 2

Obj(type, p) == [type |-> type, p |-> p]

COut(st, ls, d, r) == [st |-> st, lists |-> ls, dict |-> d, ret |-> r]
OfList(outs, d) == { COut(o.st, o.lists, d, o.ret) : o \in outs }
OfDict(outs, ls) == { COut(o.st, ls, o.dict, o.ret) : o \in outs }

\* the generic entries forward to the integer-key versions
dict_get(d, p, key) == dict_get_int(d, p, key)
dict_set(d, p, key, value) == dict_set_int(d, p, key, value)

collection_get(ls, d, obj, index_or_key) ==
    IF obj.p = NULL THEN {COut("abort", ls, d, 0)}
    ELSE IF obj.type = ORION_TYPE_LIST
         THEN OfList(list_get(ls, obj.p, index_or_key), d)
    ELSE IF obj.type = ORION_TYPE_DICT
         THEN OfDict(dict_get(d, obj.p, index_or_key), ls)
    ELSE {COut("abort", ls, d, 0)}

collection_get_string(ls, d, obj, string_key) ==
    IF obj.p = NULL THEN {COut("abort", ls, d, 0)}
    ELSE IF obj.type = ORION_TYPE_DICT
         THEN OfDict(dict_get_string(d, obj.p, string_key), ls)
    ELSE {COut("abort", ls, d, 0)}

collection_set(ls, d, obj, index_or_key, value) ==
    IF obj.p = NULL THEN {COut("abort", ls, d, 0)}
    ELSE IF obj.type = ORION_TYPE_LIST
         THEN OfList(list_set(ls, obj.p, index_or_key, value), d)
    ELSE IF obj.type = ORION_TYPE_DICT
         THEN OfDict(dict_set(d, obj.p, index_or_key, value), ls)
    ELSE {COut("abort", ls, d, 0)}

collection_set_string(ls, d, obj, string_key, value) ==
    IF obj.p = NULL THEN {COut("abort", ls, d, 0)}
    ELSE IF obj.type = ORION_TYPE_DICT
         THEN OfDict(dict_set_string(d, obj.p, string_key, value), ls)
    ELSE {COut("abort", ls, d, 0)}

---------------------------------------------------------------------------
(* The range: runtime.c lines 464-562 *)

NoRange == [live |-> FALSE, start |-> 0, stop |-> 0, step |-> 0, size |-> 0]

ROut(st, r, v, res, oob) ==
    [st |-> st, range |-> r, ret |-> v, res |-> res, oob |-> oob]
RAborted(r) == ROut("abort", r, 0, NoList, FALSE)
RReturned(r, v) == ROut("running", r, v, NoList, FALSE)

\* the size computed by range_new's else branch: the set of results the
\* builds can produce.  -1 stands for a crash (a trapping build, or the
\* division fault of INT64_MIN / -1).
RangeSizes(start, stop, step) ==
    LET diff == stop - start
        sum == Wrap(diff) + step
        num == IF step > 0 THEN Wrap(sum) - 1 ELSE Wrap(sum) + 1
        overflow == ~InInt(diff) \/ ~InInt(sum) \/ ~InInt(num)
        n == Wrap(num)
        q == CDiv(n, step)
    IN  IF n = INT_MIN /\ step = -1 THEN {-1}
        ELSE {IF q < 0 THEN 0 ELSE q} \cup (IF overflow THEN {-1} ELSE {})

range_new(r, start, stop, step) ==
    IF step = 0 THEN {RAborted(r)}
    ELSE UNION {
           IF m < 0 THEN {RAborted(r)}
           ELSE IF (step > 0 /\ start >= stop) \/ (step < 0 /\ start <= stop)
           THEN {RReturned([live |-> TRUE, start |-> start, stop |-> stop,
                            step |-> step, size |-> 0], 1)}
           ELSE { IF n < 0 THEN ROut("crash", r, 0, NoList, FALSE)
                  ELSE RReturned([live |-> TRUE, start |-> start, stop |-> stop,
                                  step |-> step, size |-> n], 1)
                  : n \in RangeSizes(start, stop, step) }
           : m \in orion_malloc(4 * ElemBytes) }

range_new_stop(r, stop) == range_new(r, 0, stop, 1)
range_new_start_stop(r, start, stop) == range_new(r, start, stop, 1)

range_len(r, p) == IF p = NULL THEN {RAborted(r)} ELSE {RReturned(r, r.size)}

\* range->start + (index * range->step)
RangeElem(r, index) == Wrap(r.start + Wrap(index * r.step))
RangeElemOverflows(r, index) ==
    ~InInt(index * r.step) \/ ~InInt(r.start + Wrap(index * r.step))

range_get(r, p, index) ==
    IF p = NULL THEN {RAborted(r)}
    ELSE IF index < 0 \/ index >= r.size THEN {RAborted(r)}
    ELSE {RReturned(r, RangeElem(r, index))}
         \cup (IF RangeElemOverflows(r, index)
               THEN {ROut("crash", r, 0, NoList, FALSE)} ELSE {})

range_to_list(r, p) ==
    IF p = NULL THEN {RAborted(r)}
    ELSE UNION {
           IF ~l.live THEN {RAborted(r)}
           ELSE LET res == [l EXCEPT !.size = r.size,
                                     !.data = [i \in 1..r.size |->
                                                  RangeElem(r, i - 1)]]
                    ub == \E i \in 0..(r.size - 1) : RangeElemOverflows(r, i)
                    oob == r.size > l.alloc
                IN  {ROut("running", r, 0, res, oob)}
                    \cup (IF ub \/ oob
                          THEN {ROut("crash", r, 0, res, oob)} ELSE {})
           : l \in list_new(r.size) }

range_free(r, p) == IF p = NULL THEN {RReturned(r, 0)} ELSE {RReturned(NoRange, 0)}

---------------------------------------------------------------------------
(* The generated program as the runtime's caller: one action per call *)

Call(op, p, q, a, b, c, key) ==
    [op |-> op, p |-> p, q |-> q, a |-> a, b |-> b, c |-> c, key |-> key]
NoCall == Call("none", 0, 0, 0, 0, 0, IntKey(0))
NoKey == IntKey(0)

\* history: the finite map as a set of [key, value]
MapHas(m, k) == \E e \in m : e.key = k
MapGet(m, k) == (CHOOSE e \in m : e.key = k).value
MapPut(m, k, v) == {e \in m : e.key # k} \cup {[key |-> k, value |-> v]}
MapDel(m, k) == {e \in m : e.key # k}

ListDo(c, outs) ==
    /\ status = "running"
    /\ \E o \in outs :
          /\ status' = o.st
          /\ lists' = o.lists
          /\ result' = o.res
          /\ ret' = o.ret
          /\ mem' = IF o.oob THEN "corrupt" ELSE mem
    /\ call' = c
    /\ UNCHANGED <<dictVars, rangeVars, parserVars, compilerVars>>

\* the caller keeps the list a constructor returned at the free address p
Adopt(outs, p) ==
    { IF o.st = "running" /\ o.res.live
      THEN [o EXCEPT !.lists = [o.lists EXCEPT ![p] = o.res], !.ret = p]
      ELSE o : o \in outs }

ListNew(p, cap) ==
    /\ ~lists[p].live
    /\ ListDo(Call("list_new", p, 0, cap, 0, 0, NoKey),
              Adopt({ IF ~l.live THEN Aborted(lists) ELSE Returned(lists, l, 0)
                      : l \in list_new(cap) }, p))

ListFromData(p, elements, count) ==
    /\ ~lists[p].live
    /\ ListDo(Call("list_from_data", p, 0, count, 0, 0, NoKey),
              Adopt(list_from_data(lists, elements, count), p))

ListLen(p) ==
    ListDo(Call("list_len", p, 0, 0, 0, 0, NoKey), list_len(lists, p))
ListGet(p, index) ==
    ListDo(Call("list_get", p, 0, index, 0, 0, NoKey), list_get(lists, p, index))
ListSet(p, index, value) ==
    ListDo(Call("list_set", p, 0, index, value, 0, NoKey),
           list_set(lists, p, index, value))
ListResize(p, new_capacity) ==
    ListDo(Call("list_resize", p, 0, new_capacity, 0, 0, NoKey),
           list_resize(lists, p, new_capacity))
ListAppend(p, value) ==
    ListDo(Call("list_append", p, 0, 0, value, 0, NoKey),
           list_append(lists, p, value))
ListPop(p) ==
    ListDo(Call("list_pop", p, 0, 0, 0, 0, NoKey), list_pop(lists, p))
ListInsert(p, index, value) ==
    ListDo(Call("list_insert", p, 0, index, value, 0, NoKey),
           list_insert(lists, p, index, value))
ListConcat(p1, p2) ==
    ListDo(Call("list_concat", p1, p2, 0, 0, 0, NoKey), list_concat(lists, p1, p2))
ListRepeat(p, count) ==
    ListDo(Call("list_repeat", p, 0, count, 0, 0, NoKey),
           list_repeat(lists, p, count))
ListExtend(p1, p2) ==
    ListDo(Call("list_extend", p1, p2, 0, 0, 0, NoKey), list_extend(lists, p1, p2))
ListPrint(p) ==
    ListDo(Call("list_print", p, 0, 0, 0, 0, NoKey), list_print(lists, p))

\* a live list, or the null pointer
Usable(p) == IF p = NULL THEN TRUE ELSE lists[p].live

DictDo(c, outs, m) ==
    /\ status = "running"
    /\ \E o \in outs :
          /\ status' = o.st
          /\ dict' = o.dict
          /\ ret' = o.ret
          /\ dmap' = IF o.st = "running" THEN m ELSE dmap
    /\ call' = c
    /\ UNCHANGED <<mem, listVars, rangeVars, parserVars, compilerVars>>

DictNew(cap) ==
    /\ ~dict.live
    /\ DictDo(Call("dict_new", 1, 0, cap, 0, 0, NoKey),
              { IF ~d.live THEN DAborted(dict) ELSE DReturned(d, 1)
                : d \in dict_new(cap) }, {})

\* the dictionary pointer the program holds, or NULL
DictUsable(p) == IF p = NULL THEN TRUE ELSE dict.live

DictLen(p) ==
    DictUsable(p) /\ DictDo(Call("dict_len", p, 0, 0, 0, 0, NoKey),
                            dict_len(dict, p), dmap)
DictGetInt(p, key) ==
    DictUsable(p) /\ DictDo(Call("dict_get", p, 0, 0, 0, 0, IntKey(key)),
                            dict_get_int(dict, p, key), dmap)
DictGetString(p, key) ==
    DictUsable(p) /\ DictDo(Call("dict_get", p, 0, 0, 0, 0, StrKey(key)),
                            dict_get_string(dict, p, key), dmap)
DictHasKeyInt(p, key) ==
    DictUsable(p) /\ DictDo(Call("dict_has_key", p, 0, 0, 0, 0, IntKey(key)),
                            dict_has_key_int(dict, p, key), dmap)
DictHasKeyString(p, key) ==
    DictUsable(p) /\ DictDo(Call("dict_has_key", p, 0, 0, 0, 0, StrKey(key)),
                            dict_has_key_string(dict, p, key), dmap)
DictSetInt(p, key, value) ==
    DictUsable(p) /\ DictDo(Call("dict_set", p, 0, 0, value, 0, IntKey(key)),
                            dict_set_int(dict, p, key, value),
                            MapPut(dmap, IntKey(key), value))
DictSetString(p, key, value) ==
    DictUsable(p) /\ DictDo(Call("dict_set", p, 0, 0, value, 0, StrKey(key)),
                            dict_set_string(dict, p, key, value),
                            MapPut(dmap, StrKey(key), value))
DictRemoveInt(p, key) ==
    DictUsable(p) /\ DictDo(Call("dict_remove", p, 0, 0, 0, 0, IntKey(key)),
                            dict_remove_int(dict, p, key),
                            MapDel(dmap, IntKey(key)))
DictRemoveString(p, key) ==
    DictUsable(p) /\ DictDo(Call("dict_remove", p, 0, 0, 0, 0, StrKey(key)),
                            dict_remove_string(dict, p, key),
                            MapDel(dmap, StrKey(key)))
DictResize(p) ==
    DictUsable(p) /\ DictDo(Call("dict_resize", p, 0, 0, 0, 0, NoKey),
                            dict_resize_call(dict, p), dmap)
DictFree(p) ==
    DictUsable(p) /\ DictDo(Call("dict_free", p, 0, 0, 0, 0, NoKey),
                            dict_free(dict, p), IF p = NULL THEN dmap ELSE {})

RangeDo(c, outs) ==
    /\ status = "running"
    /\ \E o \in outs :
          /\ status' = o.st
          /\ range' = o.range
          /\ ret' = o.ret
          /\ result' = o.res
          /\ mem' = IF o.oob THEN "corrupt" ELSE mem
    /\ call' = c
    /\ UNCHANGED <<lists, dictVars, parserVars, compilerVars>>

RangeUsable(p) == IF p = NULL THEN TRUE ELSE range.live

RangeNew(start, stop, step) ==
    /\ ~range.live
    /\ RangeDo(Call("range_new", 1, 0, start, stop, step, NoKey),
               range_new(range, start, stop, step))
RangeNewStop(stop) ==
    /\ ~range.live
    /\ RangeDo(Call("range_new", 1, 0, 0, stop, 1, NoKey),
               range_new_stop(range, stop))
RangeNewStartStop(start, stop) ==
    /\ ~range.live
    /\ RangeDo(Call("range_new", 1, 0, start, stop, 1, NoKey),
               range_new_start_stop(range, start, stop))
RangeLen(p) ==
    RangeUsable(p) /\ RangeDo(Call("range_len", p, 0, 0, 0, 0, NoKey),
                              range_len(range, p))
RangeGet(p, index) ==
    RangeUsable(p) /\ RangeDo(Call("range_get", p, 0, index, 0, 0, NoKey),
                              range_get(range, p, index))
RangeToList(p) ==
    RangeUsable(p) /\ RangeDo(Call("range_to_list", p, 0, 0, 0, 0, NoKey),
                              range_to_list(range, p))
RangeFree(p) ==
    RangeUsable(p) /\ RangeDo(Call("range_free", p, 0, 0, 0, 0, NoKey),
                              range_free(range, p))

CollectionDo(c, outs, m) ==
    /\ status = "running"
    /\ \E o \in outs :
          /\ status' = o.st
          /\ lists' = o.lists
          /\ dict' = o.dict
          /\ ret' = o.ret
          /\ dmap' = IF o.st = "running" THEN m ELSE dmap
    /\ result' = NoList
    /\ call' = c
    /\ UNCHANGED <<mem, rangeVars, parserVars, compilerVars>>

\* a null pointer, a live list or the live dictionary
ObjUsable(obj) ==
    IF obj.p = NULL THEN TRUE
    ELSE IF obj.type = ORION_TYPE_LIST THEN lists[obj.p].live
    ELSE dict.live

CollectionGet(obj, k) ==
    ObjUsable(obj) /\ CollectionDo(Call("collection_get", obj.p, obj.type, k, 0, 0, NoKey),
                                   collection_get(lists, dict, obj, k), dmap)
CollectionGetString(obj, k) ==
    ObjUsable(obj) /\ CollectionDo(Call("collection_get", obj.p, obj.type, 0, 0, 0, StrKey(k)),
                                   collection_get_string(lists, dict, obj, k), dmap)
CollectionSet(obj, k, v) ==
    ObjUsable(obj) /\ CollectionDo(Call("collection_set", obj.p, obj.type, k, v, 0, NoKey),
                                   collection_set(lists, dict, obj, k, v),
                                   IF obj.p # NULL /\ obj.type = ORION_TYPE_DICT
                                   THEN MapPut(dmap, IntKey(k), v) ELSE dmap)
CollectionSetString(obj, k, v) ==
    ObjUsable(obj) /\ CollectionDo(Call("collection_set", obj.p, obj.type, 0, v, 0, StrKey(k)),
                                   collection_set_string(lists, dict, obj, k, v),
                                   IF obj.p # NULL /\ obj.type = ORION_TYPE_DICT
                                   THEN MapPut(dmap, StrKey(k), v) ELSE dmap)

---------------------------------------------------------------------------
(* The machine that runs the assembled output: W-bit registers and a       *)
(* memory of 8-byte words.                                                 *)

Registers ==
    {"rax", "rbx", "rcx", "rdx", "rdi", "rsi", "r8", "r9", "r12", "r13",
     "r14", "rsp", "rbp"}

StackFrames == 8            \* 16-byte units of stack mapped below the entry %rsp
HeapWords == 4              \* words of heap orion_malloc hands out
WordBytes == 8              \* bytes of a register, a stack slot, an element
StackWords == 2 * StackFrames
StackTop == WordBytes * StackWords
HeapBase == StackTop + WordBytes
\* the mapped addresses; 0 is not one of them
Mapped == {WordBytes * i : i \in 1..(StackWords + HeapWords)}
\* code addresses lie apart from every W-bit datum
CodeBase == 2 * SIZE_MOD

NoSource == [form |-> "none", ast |-> <<>>, op |-> "", a |-> 0, b |-> 0]

\* calls, via, imuls, pushed and unmatched are history: the %rsp of the
\* calls not yet returned from, how the program counter got its value, the
\* imul instructions executed, the words pushed and not yet popped, and
\* whether a pop or ret found another word than the one last pushed
PoweredOff ==
    [status |-> "off", pc |-> 0, reg |-> [r \in Registers |-> 0],
     memory |-> [a \in Mapped |-> 0], zf |-> FALSE, lt |-> FALSE,
     calls |-> <<>>, via |-> "none", imuls |-> 0, pushed |-> <<>>,
     unmatched |-> FALSE]

\* no backend has been created, no reservation asked for
NoABIConfig ==
    [argRegs |-> <<>>, calleeSaved |-> <<>>, shadowSpace |-> 0,
     hasRedZone |-> FALSE, needsALForVarargs |-> FALSE, stackAlign |-> 0,
     symbolPrefix |-> "", exeExtension |-> ""]
NoBackend == [platform |-> "none", abiConfig |-> NoABIConfig]
NoReservation ==
    [bytes |-> 0,
     text |-> [op |-> "none", src |-> [m |-> "none", r |-> "", n |-> 0],
               dst |-> [m |-> "none", r |-> "", n |-> 0]]]
InitBackendIdle ==
    /\ backend = NoBackend
    /\ reservation = NoReservation

InitCompilerIdle ==
    /\ source = NoSource
    /\ output = <<>>
    /\ cpu = PoweredOff
    /\ InitBackendIdle

---------------------------------------------------------------------------
(* Specifications of the runtime *)

InitRuntime ==
    /\ status = "running"
    /\ mem = "intact"
    /\ call = NoCall
    /\ ret = 0
    /\ lists = [a \in ListAddrs |-> NoList]
    /\ result = NoList
    /\ dict = NoDict
    /\ dmap = {}
    /\ range = NoRange

InitParserIdle ==
    /\ tokens = <<>>
    /\ current = 0
    /\ program = <<>>
    /\ perror = FALSE
    /\ expect = [form |-> "none", ast |-> <<>>]

Init == InitRuntime /\ InitParserIdle /\ InitCompilerIdle

\* element and value data: two values tell any two elements apart
Vals == {0, 1}
RECURSIVE SeqsUpTo(_, _)
SeqsUpTo(S, n) ==
    IF n = 0 THEN {<<>>}
    ELSE LET shorter == SeqsUpTo(S, n - 1)
         IN  shorter \cup {Append(s, x) : s \in shorter, x \in S}

NewCaps == {0, MinListCap + 1}
Indexes == (-(MaxLen + 1))..(MaxLen + 1) \cup {INT_MIN, INT_MAX}
Counts == {-1, 0, 1, 2, 2^(W-4), 2^(W-3), INT_MAX}

\* the size of the list at p is below n (the model's bound on growth)
Below(p, n) == IF p = NULL THEN TRUE ELSE lists[p].size < n

NextList ==
    \/ \E p \in ListAddrs, cap \in NewCaps : ListNew(p, cap)
    \/ \E p \in ListAddrs, e \in SeqsUpTo(Vals, MaxLen) : ListFromData(p, e, Len(e))
    \/ \E p \in ListPtrs : Usable(p) /\ ListLen(p)
    \/ \E p \in ListPtrs, i \in Indexes : Usable(p) /\ ListGet(p, i)
    \/ \E p \in ListPtrs, i \in Indexes, v \in Vals : Usable(p) /\ ListSet(p, i, v)
    \/ \E p \in ListPtrs, v \in Vals :
          Usable(p) /\ Below(p, MaxLen) /\ ListAppend(p, v)
    \/ \E p \in ListPtrs : Usable(p) /\ ListPop(p)
    \/ \E p \in ListPtrs, i \in Indexes, v \in Vals :
          Usable(p) /\ Below(p, MaxLen) /\ ListInsert(p, i, v)
    \/ \E p1 \in ListPtrs, p2 \in ListPtrs :
          Usable(p1) /\ Usable(p2) /\ ListConcat(p1, p2)
    \/ \E p \in ListPtrs, n \in Counts : Usable(p) /\ ListRepeat(p, n)
    \/ \E p1 \in ListPtrs, p2 \in ListPtrs :
          /\ Usable(p1) /\ Usable(p2)
          /\ IF p1 = NULL \/ p2 = NULL THEN TRUE
             ELSE lists[p1].size + lists[p2].size <= MaxLen
          /\ ListExtend(p1, p2)

SpecList == Init /\ [][NextList]_vars

---------------------------------------------------------------------------
(* Properties of the list *)

\* the element (0-based) an index designates in a list of n elements, or -1
ElementOf(i, n) ==
    IF 0 <= i /\ i < n THEN i
    ELSE IF -n <= i /\ i < 0 THEN i + n
    ELSE -1

\* C1: list_get(L, i) and list_set(L, i, v) act on element i when
\* 0 <= i < size, on element i + size when -size <= i < 0, and otherwise
\* abort without touching the list; list_set changes exactly that one
\* element and leaves size, capacity and every other element as they were.
C1_IndexContract ==
    [][ IF call'.op \in {"list_get", "list_set"} /\ call'.p # NULL
        THEN LET p == call'.p
                 e == ElementOf(call'.a, lists[p].size)
             IN  IF e = -1
                 THEN status' = "abort" /\ lists' = lists
                 ELSE /\ status' = "running"
                      /\ mem' = mem
                      /\ IF call'.op = "list_get"
                         THEN ret' = lists[p].data[e + 1] /\ lists' = lists
                         ELSE lists' = [lists EXCEPT ![p].data[e + 1] = call'.b]
        ELSE TRUE ]_vars

\* list_set(L, -2, 1) has just replaced the first of two elements
C1_Witness ==
    /\ call.op = "list_set" /\ call.a = -2 /\ call.b = 1
    /\ call.p # NULL
    /\ status = "running"
    /\ lists[call.p].size = 2
    /\ lists[call.p].data = <<1, 0>>

\* the exact length of the list a repeat/concat/extend call builds
ExactLength(c, ls) ==
    IF c.op = "list_repeat" THEN ls[c.p].size * c.a
    ELSE ls[c.p].size + ls[c.q].size

\* C7: list_repeat, list_concat and list_extend either abort with a
\* diagnostic or yield a list whose size is the exact result length and
\* whose buffer holds at least that many elements; they never allocate a
\* smaller buffer and copy past its end.
C7_NoOverrun ==
    [][ IF /\ call'.op \in {"list_repeat", "list_concat", "list_extend"}
           /\ call'.p # NULL
           /\ (call'.op = "list_repeat" \/ call'.q # NULL)
        THEN \/ status' = "abort"
             \/ /\ status' = "running"
                /\ mem' = mem
                /\ LET built == IF call'.op = "list_extend"
                                THEN lists'[call'.p] ELSE result'
                   IN  /\ built.size = ExactLength(call', lists)
                       /\ built.alloc >= built.size
        ELSE TRUE ]_vars

\* list_repeat of a one-element list has returned a list of 2^(W-3)
\* elements over a buffer of no bytes
C7_Overrun ==
    /\ call.op = "list_repeat" /\ call.a = 2^(W-3)
    /\ call.p # NULL
    /\ lists[call.p].size = 1
    /\ status = "running" /\ mem = "corrupt"
    /\ result.size = 2^(W-3) /\ result.alloc = 0

---------------------------------------------------------------------------
(* The dictionary under its caller *)

\* integer keys 0, 8 and 16 share bucket 0 of an 8-bucket table; key 6 and
\* the strings "a" and "i" share bucket 6
DictIntKeys == {0, 8, 16, 6}
DictStrKeys == {<<97>>, <<105>>}

NextDict ==
    \/ DictNew(0)
    \/ DictLen(1)
    \/ \E k \in DictIntKeys : DictGetInt(1, k)
    \/ \E k \in DictStrKeys : DictGetString(1, k)
    \/ \E k \in DictIntKeys : DictHasKeyInt(1, k)
    \/ \E k \in DictStrKeys : DictHasKeyString(1, k)
    \/ \E k \in DictIntKeys, v \in Vals : DictSetInt(1, k, v)
    \/ \E k \in DictStrKeys, v \in Vals : DictSetString(1, k, v)
    \/ \E k \in DictIntKeys : DictRemoveInt(1, k)
    \/ \E k \in DictStrKeys : DictRemoveString(1, k)

SpecDict == Init /\ [][NextDict]_vars

\* C2: the dictionary behaves as a finite map.  dmap is the map the calls
\* made so far define (the last value set for each key not removed since);
\* dict_get returns dmap's value, dict_has_key is 1 exactly on dmap's keys,
\* dict_len is the number of dmap's keys, and dict_get or dict_remove of
\* any other key aborts and leaves the dictionary as it was.
C2_FiniteMap ==
    [][ IF call'.p # NULL
        THEN LET k == call'.key
             IN  CASE call'.op = "dict_get" ->
                        IF MapHas(dmap, k)
                        THEN /\ status' = "running"
                             /\ ret' = MapGet(dmap, k)
                             /\ dict' = dict
                        ELSE status' = "abort" /\ dict' = dict
                   [] call'.op = "dict_has_key" ->
                        /\ status' = "running"
                        /\ ret' = (IF MapHas(dmap, k) THEN 1 ELSE 0)
                        /\ dict' = dict
                   [] call'.op = "dict_len" ->
                        /\ status' = "running"
                        /\ ret' = Cardinality(dmap)
                        /\ dict' = dict
                   [] call'.op = "dict_remove" ->
                        IF MapHas(dmap, k)
                        THEN status' = "running"
                        ELSE status' = "abort" /\ dict' = dict
                   [] call'.op = "dict_set" ->
                        status' \in {"running", "abort"}
                   [] OTHER -> TRUE
        ELSE TRUE ]_vars

\* after a resize to 16 buckets, dict_get of key 16 (which shares a chain
\* with key 0) returns the value last set for it
C2_Witness ==
    /\ call.op = "dict_get" /\ call.key = IntKey(16)
    /\ status = "running" /\ ret = 1
    /\ dict.capacity = 2 * MinDictCap
    /\ Len(dict.buckets[1]) = 2

---------------------------------------------------------------------------
(* The dictionary's load: new keys 0, 1, 2, ... stored into tables of every *)
(* initial capacity up to MaxLoadCap                                        *)

MaxLoadCap == 20            \* largest initial capacity asked of dict_new
MaxLoadKeys == 16           \* keys are added up to this size

NextDictLoad ==
    \/ \E cap \in 0..MaxLoadCap : DictNew(cap)
    \/ dict.live /\ dict.size < MaxLoadKeys /\ DictSetInt(1, dict.size, 0)
    \/ \E v \in Vals : dict.live /\ dict.size > 0 /\ DictSetInt(1, 0, v)
    \/ dict.live /\ DictLen(1)
    \/ dict.live /\ DictFree(1)

SpecDictLoad == Init /\ [][NextDictLoad]_vars

\* dict->capacity * 3 / 4
ResizeThreshold(capacity) == (3 * capacity) \div 4

---------------------------------------------------------------------------
(* The range under its caller *)

RangeStarts == {INT_MIN, -2, 0, 1}
RangeStops == {-3, 0, 2, 5, 2^(W-3), INT_MAX}
RangeSteps == {-2, -1, 0, 1, 2, 3, INT_MAX}
RangeIndexes == {-2, -1, 0, 1, 2, 3, INT_MAX}

NextRange ==
    \/ \E a \in RangeStarts, b \in RangeStops, s \in RangeSteps : RangeNew(a, b, s)
    \/ \E b \in RangeStops : RangeNewStop(b)
    \/ \E a \in RangeStarts, b \in RangeStops : RangeNewStartStop(a, b)
    \/ range.live /\ RangeLen(1)
    \/ \E i \in RangeIndexes : range.live /\ RangeGet(1, i)
    \/ range.live /\ RangeToList(1)
    \/ range.live /\ RangeFree(1)

SpecRange == Init /\ [][NextRange]_vars

\* ceil(a / b) in exact arithmetic, b # 0
CeilDiv(a, b) == IF b > 0 THEN -((-a) \div b) ELSE -(a \div (-b))
ExactRangeLen(start, stop, step) == Max(0, CeilDiv(stop - start, step))

\* C4: for every start, stop and non-zero step, range_new yields a range
\* whose range_len is max(0, ceil((stop - start) / step)) in exact
\* arithmetic; range_new with step 0 aborts and creates no range.
C4_ExactLength ==
    [][ IF call'.op = "range_new"
        THEN IF call'.c = 0
             THEN status' = "abort" /\ ~range'.live
             ELSE /\ status' \in {"running", "abort"}
                  /\ status' = "running" =>
                        /\ range'.live
                        /\ range'.size = ExactRangeLen(call'.a, call'.b, call'.c)
        ELSE IF call'.op = "range_len" /\ call'.p # NULL
        THEN /\ status' = "running"
             /\ ret' = ExactRangeLen(range.start, range.stop, range.step)
        ELSE TRUE ]_vars

\* range_new(0, INT_MAX, 2) has returned a range of no elements
C4_WrongLength ==
    /\ call.op = "range_new" /\ call.a = 0 /\ call.b = INT_MAX /\ call.c = 2
    /\ status = "running"
    /\ range.live /\ range.size = 0

\* C5: range_to_list(r) is a list of length range_len(r) whose element i is
\* a + i*s; range_get(r, i) returns a + i*s for 0 <= i < range_len(r) and
\* aborts for every other i, negative ones included.
C5_Elements ==
    [][ IF call'.op = "range_to_list" /\ call'.p # NULL
        THEN /\ status' \in {"running", "abort"}
             /\ status' = "running" =>
                   /\ mem' = mem
                   /\ result'.live
                   /\ result'.size = range.size
                   /\ result'.alloc >= range.size
                   /\ result'.data = [i \in 1..range.size |->
                                         range.start + (i - 1) * range.step]
        ELSE IF call'.op = "range_get" /\ call'.p # NULL
        THEN IF 0 <= call'.a /\ call'.a < range.size
             THEN /\ status' = "running"
                  /\ ret' = range.start + call'.a * range.step
             ELSE status' = "abort"
        ELSE TRUE ]_vars

\* range_to_list of range_new(0, 2^(W-3), 1) has returned a list of
\* 2^(W-3) elements over a buffer of no bytes
C5_Overrun ==
    /\ call.op = "range_to_list"
    /\ range.start = 0 /\ range.step = 1 /\ range.size = 2^(W-3)
    /\ status = "running" /\ mem = "corrupt"
    /\ result.size = 2^(W-3) /\ result.alloc = 0

---------------------------------------------------------------------------
(* Null receivers: every entry of the runtime called with NULL and with a  *)
(* live object                                                             *)

Ptrs == {NULL, 1}
Objs == {Obj(0, NULL), Obj(ORION_TYPE_LIST, 1), Obj(ORION_TYPE_DICT, 1)}
KeyStrings == {<<97>>, NullStr}

NextNull ==
    \/ ListNew(1, 0)
    \/ DictNew(0)
    \/ RangeNewStop(2)
    \/ \E p \in Ptrs : Usable(p) /\ ListLen(p)
    \/ \E p \in Ptrs : Usable(p) /\ ListGet(p, 0)
    \/ \E p \in Ptrs : Usable(p) /\ ListSet(p, 0, 1)
    \/ \E p \in Ptrs : Usable(p) /\ ListResize(p, 2 * MinListCap)
    \/ \E p \in Ptrs : Usable(p) /\ Below(p, MaxLen) /\ ListAppend(p, 0)
    \/ \E p \in Ptrs : Usable(p) /\ ListPop(p)
    \/ \E p \in Ptrs : Usable(p) /\ Below(p, MaxLen) /\ ListInsert(p, 0, 0)
    \/ \E p \in Ptrs, q \in Ptrs : Usable(p) /\ Usable(q) /\ ListConcat(p, q)
    \/ \E p \in Ptrs : Usable(p) /\ ListRepeat(p, 2)
    \/ \E p \in Ptrs, q \in Ptrs :
          /\ Usable(p) /\ Usable(q)
          /\ IF p = NULL \/ q = NULL THEN TRUE
             ELSE lists[p].size + lists[q].size <= MaxLen
          /\ ListExtend(p, q)
    \/ \E p \in Ptrs : Usable(p) /\ ListPrint(p)
    \/ \E p \in Ptrs : DictLen(p)
    \/ \E p \in Ptrs : DictGetInt(p, 0)
    \/ \E p \in Ptrs, k \in KeyStrings : DictGetString(p, k)
    \/ \E p \in Ptrs : DictHasKeyInt(p, 0)
    \/ \E p \in Ptrs, k \in KeyStrings : DictHasKeyString(p, k)
    \/ \E p \in Ptrs : DictSetInt(p, 0, 1)
    \/ \E p \in Ptrs : DictSetString(p, <<97>>, 1)
    \/ \E p \in Ptrs : DictSetString(p, NullStr, 1)
    \/ \E p \in Ptrs : DictRemoveInt(p, 0)
    \/ \E p \in Ptrs, k \in KeyStrings : DictRemoveString(p, k)
    \/ \E p \in Ptrs :
          /\ IF p = NULL THEN TRUE ELSE dict.capacity <= MinDictCap
          /\ DictResize(p)
    \/ \E p \in Ptrs : DictFree(p)
    \/ \E p \in Ptrs : RangeLen(p)
    \/ \E p \in Ptrs : RangeGet(p, 0)
    \/ \E p \in Ptrs : RangeToList(p)
    \/ \E p \in Ptrs : RangeFree(p)
    \/ \E obj \in Objs : CollectionGet(obj, 0)
    \/ \E obj \in Objs : CollectionGetString(obj, <<97>>)
    \/ \E obj \in Objs : CollectionSet(obj, 0, 1)
    \/ \E obj \in Objs : CollectionSetString(obj, <<97>>, 1)

SpecNull == Init /\ [][NextNull]_vars

\* the call was made with a null receiver, or a null second list
NullCall(c) ==
    \/ c.p = NULL
    \/ c.op \in {"list_concat", "list_extend"} /\ c.q = NULL

\* the entries that return at once on a null receiver
NullTolerant ==
    {"list_resize", "list_print", "dict_resize", "dict_free", "range_free"}

\* C6 as stated: every runtime operation called with a null receiver (or a
\* null second list) ends the program with a non-zero exit code; none
\* returns normally.
C6_NullAlwaysAborts ==
    [][ IF NullCall(call') THEN status' = "abort" ELSE TRUE ]_vars

\* C6: every runtime operation called with a null receiver (or a null
\* second list) ends the program with a non-zero exit code, except
\* list_resize, list_print, dict_resize, dict_free and range_free, which
\* return normally and change no object.
C6_NullContract ==
    [][ IF NullCall(call')
        THEN IF call'.op \in NullTolerant
             THEN /\ status' = "running"
                  /\ UNCHANGED <<lists, dict, range, mem>>
             ELSE status' = "abort"
        ELSE TRUE ]_vars

\* list_extend(L, NULL) on a live list L has aborted
C6_Witness ==
    /\ call.op = "list_extend" /\ call.p = 1 /\ call.q = NULL
    /\ lists[1].live
    /\ status = "abort"

---------------------------------------------------------------------------
(* The parser: unnamed/part_002 lines 10-793.  current is the 0-based      *)
(* cursor into tokens.  A parse function takes the tokens and the cursor   *)
(* and yields [ok, pos, node]: the node built and the cursor after it, or  *)
(* ok = FALSE with the cursor where the exception was thrown.  An AST node *)
(* is [k, v, n, c]: its class, its name or operator, its number, and its   *)
(* children.                                                               *)

Tok(type, value) == [type |-> type, value |-> value]
EOFToken == Tok("EOF_TOKEN", "")

Node(k, v, n, c) == [k |-> k, v |-> v, n |-> n, c |-> c]
\* nullptr
Nil == Node("null", "", 0, <<>>)

Ok(pos, node) == [ok |-> TRUE, pos |-> pos, node |-> node]
Throw(pos) == [ok |-> FALSE, pos |-> pos, node |-> Nil]

peek(toks, pos) == IF pos >= Len(toks) THEN EOFToken ELSE toks[pos + 1]

isAtEnd(toks, pos) ==
    IF pos >= Len(toks) THEN TRUE ELSE peek(toks, pos).type = "EOF_TOKEN"

\* tokens[current - 1]; the parser never asks for it at cursor 0
previous(toks, pos) == IF pos = 0 THEN EOFToken ELSE toks[pos]

\* the cursor after advance()
advance(toks, pos) == IF ~isAtEnd(toks, pos) THEN pos + 1 ELSE pos

check(toks, pos, type) ==
    IF isAtEnd(toks, pos) THEN FALSE ELSE peek(toks, pos).type = type

\* match({types}): TRUE when the cursor moves on by one
match(toks, pos, types) ==
    IF isAtEnd(toks, pos) THEN FALSE ELSE peek(toks, pos).type \in types

\* the cursor after match({types})
matched(toks, pos, types) == IF match(toks, pos, types) THEN pos + 1 ELSE pos

isStatementTerminator(toks, pos) ==
    \/ check(toks, pos, "NEWLINE") \/ check(toks, pos, "SEMICOLON")
    \/ check(toks, pos, "RBRACE") \/ check(toks, pos, "EOF_TOKEN")
    \/ check(toks, pos, "IF") \/ check(toks, pos, "ELIF")
    \/ check(toks, pos, "ELSE") \/ check(toks, pos, "WHILE")
    \/ check(toks, pos, "FOR") \/ check(toks, pos, "BREAK")
    \/ check(toks, pos, "CONTINUE") \/ check(toks, pos, "PASS")
    \/ check(toks, pos, "RETURN")

\* consume(type, message): the cursor after the token, or the exception
consume(toks, pos, type) ==
    IF check(toks, pos, type) THEN Ok(pos + 1, Nil) ELSE Throw(pos)

\* std::stoi on the lexemes the model uses; -1 for std::out_of_range
stoi(lexeme) ==
    CASE lexeme = "0" -> 0
      [] lexeme = "1" -> 1
      [] lexeme = "2" -> 2
      [] lexeme = "07" -> 7
      [] OTHER -> -1

TypeKeywords ==
    {"INT", "INT64", "FLOAT32", "FLOAT64", "STRING_TYPE", "BOOL_TYPE", "VOID"}

isTypeKeyword(type) == type \in TypeKeywords

isTypeToken(token) == isTypeKeyword(token.type) \/ token.type = "IDENTIFIER"

\* Type(kind) and Type(kind, name)
Type(kind, name) ==
    Node("Type", kind, 0,
         IF name = "" THEN <<>> ELSE <<Node("Name", name, 0, <<>>)>>)

tokenToType(type, value) ==
    CASE type = "INT" -> Type("INT32", "")
      [] type = "INT64" -> Type("INT64", "")
      [] type = "FLOAT32" -> Type("FLOAT32", "")
      [] type = "FLOAT64" -> Type("FLOAT64", "")
      [] type = "STRING_TYPE" -> Type("STRING", "")
      [] type = "BOOL_TYPE" -> Type("BOOL", "")
      [] type = "VOID" -> Type("VOID", "")
      [] OTHER -> Type("UNKNOWN", value)

parseType(toks, pos) ==
    IF match(toks, pos, TypeKeywords)
    THEN Ok(pos + 1, tokenToType(peek(toks, pos).type, ""))
    ELSE IF check(toks, pos, "IDENTIFIER")
    THEN Ok(pos + 1, Type("STRUCT", peek(toks, pos).value))
    ELSE Throw(pos)

\* the BinaryOp of an operator token
BinaryOpOf(type) ==
    CASE type = "OR" -> "OR"
      [] type = "AND" -> "AND"
      [] type = "EQ" -> "EQ"
      [] type = "NE" -> "NE"
      [] type = "LT" -> "LT"
      [] type = "LE" -> "LE"
      [] type = "GT" -> "GT"
      [] type = "GE" -> "GE"
      [] type = "PLUS" -> "ADD"
      [] type = "MINUS" -> "SUB"
      [] type = "MULTIPLY" -> "MUL"
      [] type = "DIVIDE" -> "DIV"
      [] type = "MODULO" -> "MOD"
      [] type = "FLOOR_DIVIDE" -> "FLOOR_DIV"
      [] type = "POWER" -> "POWER"

\* the switch of parseVariableDeclaration, lines 232-239
CompoundOp(assignOp) ==
    CASE assignOp = "PLUS_ASSIGN" -> "ADD"
      [] assignOp = "MINUS_ASSIGN" -> "SUB"
      [] assignOp = "MULTIPLY_ASSIGN" -> "MUL"
      [] assignOp = "DIVIDE_ASSIGN" -> "DIV"
      [] assignOp = "MODULO_ASSIGN" -> "MOD"

AssignOps ==
    {"ASSIGN", "PLUS_ASSIGN", "MINUS_ASSIGN", "MULTIPLY_ASSIGN",
     "DIVIDE_ASSIGN", "MODULO_ASSIGN"}

Identifier(name) == Node("Identifier", name, 0, <<>>)
IntLiteral(value) == Node("IntLiteral", "", value, <<>>)
BinaryExpression(left, op, right) == Node("BinaryExpression", op, 0, <<left, right>>)
UnaryExpression(op, operand) == Node("UnaryExpression", op, 0, <<operand>>)
FunctionCall(name, arguments) == Node("FunctionCall", name, 0, arguments)
TupleExpression(elements) == Node("TupleExpression", "", 0, elements)
ExpressionStatement(expr) == Node("ExpressionStatement", "", 0, <<expr>>)
VariableDeclaration(name, type, init, hasExplicitType) ==
    Node("VariableDeclaration", name, IF hasExplicitType THEN 1 ELSE 0,
         <<type, init>>)
BlockStatement(statements) == Node("BlockStatement", "", 0, statements)
IfStatement(condition, thenBranch, elseBranch) ==
    Node("IfStatement", "", 0, <<condition, thenBranch, elseBranch>>)
FunctionDeclaration(name, parameters, returnType, isSingleExpression, body) ==
    Node("FunctionDeclaration", name, IF isSingleExpression THEN 1 ELSE 0,
         <<Node("parameters", "", 0, parameters), returnType,
           Node("body", "", 0, body)>>)

\* the statement terminator match({NEWLINE, SEMICOLON}) skips, if any
SkipTerminator(toks, pos) == matched(toks, pos, {"NEWLINE", "SEMICOLON"})

RECURSIVE Invoke(_, _, _)

RECURSIVE LogicalOrLoop(_, _, _), LogicalAndLoop(_, _, _), EqualityLoop(_, _, _),
          ComparisonLoop(_, _, _), TermLoop(_, _, _), FactorLoop(_, _, _),
          CallLoop(_, _, _), ExpressionList(_, _, _), DictPairs(_, _, _)

parseExpression(toks, pos) == Invoke("parseLogicalOr", toks, pos)

\* parseExpressionWithTerminators returns the expression either way
parseExpressionWithTerminators(toks, pos) == Invoke("parseLogicalOr", toks, pos)

parseLogicalOr(toks, pos) ==
    LET l == Invoke("parseLogicalAnd", toks, pos)
    IN  IF ~l.ok THEN l ELSE LogicalOrLoop(toks, l.pos, l.node)

LogicalOrLoop(toks, pos, expr) ==
    IF ~isStatementTerminator(toks, pos) /\ match(toks, pos, {"OR"})
    THEN LET r == Invoke("parseLogicalAnd", toks, pos + 1)
         IN  IF ~r.ok THEN r
             ELSE LogicalOrLoop(toks, r.pos,
                                BinaryExpression(expr, "OR", r.node))
    ELSE Ok(pos, expr)

parseLogicalAnd(toks, pos) ==
    LET l == Invoke("parseEquality", toks, pos)
    IN  IF ~l.ok THEN l ELSE LogicalAndLoop(toks, l.pos, l.node)

LogicalAndLoop(toks, pos, expr) ==
    IF ~isStatementTerminator(toks, pos) /\ match(toks, pos, {"AND"})
    THEN LET r == Invoke("parseEquality", toks, pos + 1)
         IN  IF ~r.ok THEN r
             ELSE LogicalAndLoop(toks, r.pos,
                                 BinaryExpression(expr, "AND", r.node))
    ELSE Ok(pos, expr)

parseEquality(toks, pos) ==
    LET l == Invoke("parseComparison", toks, pos)
    IN  IF ~l.ok THEN l ELSE EqualityLoop(toks, l.pos, l.node)

EqualityLoop(toks, pos, expr) ==
    IF ~isStatementTerminator(toks, pos) /\ match(toks, pos, {"EQ", "NE"})
    THEN LET op == BinaryOpOf(peek(toks, pos).type)
             r == Invoke("parseComparison", toks, pos + 1)
         IN  IF ~r.ok THEN r
             ELSE EqualityLoop(toks, r.pos, BinaryExpression(expr, op, r.node))
    ELSE Ok(pos, expr)

parseComparison(toks, pos) ==
    LET l == Invoke("parseTerm", toks, pos)
    IN  IF ~l.ok THEN l ELSE ComparisonLoop(toks, l.pos, l.node)

ComparisonLoop(toks, pos, expr) ==
    IF /\ ~isStatementTerminator(toks, pos)
       /\ match(toks, pos, {"LT", "LE", "GT", "GE"})
    THEN LET op == BinaryOpOf(peek(toks, pos).type)
             r == Invoke("parseTerm", toks, pos + 1)
         IN  IF ~r.ok THEN r
             ELSE ComparisonLoop(toks, r.pos, BinaryExpression(expr, op, r.node))
    ELSE Ok(pos, expr)

parseTerm(toks, pos) ==
    LET l == Invoke("parseFactor", toks, pos)
    IN  IF ~l.ok THEN l ELSE TermLoop(toks, l.pos, l.node)

TermLoop(toks, pos, expr) ==
    IF ~isStatementTerminator(toks, pos) /\ match(toks, pos, {"PLUS", "MINUS"})
    THEN LET op == BinaryOpOf(peek(toks, pos).type)
             r == Invoke("parseFactor", toks, pos + 1)
         IN  IF ~r.ok THEN r
             ELSE TermLoop(toks, r.pos, BinaryExpression(expr, op, r.node))
    ELSE Ok(pos, expr)

parseFactor(toks, pos) ==
    LET l == Invoke("parsePower", toks, pos)
    IN  IF ~l.ok THEN l ELSE FactorLoop(toks, l.pos, l.node)

FactorLoop(toks, pos, expr) ==
    IF /\ ~isStatementTerminator(toks, pos)
       /\ match(toks, pos, {"MULTIPLY", "DIVIDE", "MODULO", "FLOOR_DIVIDE"})
    THEN LET op == BinaryOpOf(peek(toks, pos).type)
             r == Invoke("parsePower", toks, pos + 1)
         IN  IF ~r.ok THEN r
             ELSE FactorLoop(toks, r.pos, BinaryExpression(expr, op, r.node))
    ELSE Ok(pos, expr)

\* the right operand of ** parsed as a unary expression: ** no longer
\* groups to the right
parsePowerOnce(toks, pos) ==
    LET l == Invoke("parseUnary", toks, pos)
    IN  IF ~l.ok THEN l
        ELSE IF match(toks, l.pos, {"POWER"})
        THEN LET r == Invoke("parseUnary", toks, l.pos + 1)
             IN  IF ~r.ok THEN r
                 ELSE Ok(r.pos, BinaryExpression(l.node, "POWER", r.node))
        ELSE l

parsePower(toks, pos) ==
    LET l == Invoke("parseUnary", toks, pos)
    IN  IF ~l.ok THEN l
        ELSE IF match(toks, l.pos, {"POWER"})
        THEN LET r == Invoke("parsePower", toks, l.pos + 1)
             IN  IF ~r.ok THEN r
                 ELSE Ok(r.pos, BinaryExpression(l.node, "POWER", r.node))
        ELSE l

parseUnary(toks, pos) ==
    IF match(toks, pos, {"NOT", "MINUS", "PLUS"})
    THEN LET op == peek(toks, pos).type
             r == Invoke("parseUnary", toks, pos + 1)
         IN  IF ~r.ok THEN r ELSE Ok(r.pos, UnaryExpression(op, r.node))
    ELSE Invoke("parseCall", toks, pos)

\* do { push(parseExpression()) } while (match({COMMA})): the elements
ExpressionList(toks, pos, elements) ==
    LET e == Invoke("parseExpression", toks, pos)
    IN  IF ~e.ok THEN e
        ELSE IF match(toks, e.pos, {"COMMA"})
        THEN ExpressionList(toks, e.pos + 1, Append(elements, e.node))
        ELSE Ok(e.pos, Node("elements", "", 0, Append(elements, e.node)))

parseCall(toks, pos) ==
    LET p == Invoke("parsePrimary", toks, pos)
    IN  IF ~p.ok THEN p ELSE CallLoop(toks, p.pos, p.node)

CallLoop(toks, pos, expr) ==
    IF match(toks, pos, {"LPAREN"})
    THEN IF expr.k = "Identifier"
         THEN LET args == IF check(toks, pos + 1, "RPAREN")
                          THEN Ok(pos + 1, Node("elements", "", 0, <<>>))
                          ELSE ExpressionList(toks, pos + 1, <<>>)
              IN  IF ~args.ok THEN args
                  ELSE IF ~check(toks, args.pos, "RPAREN") THEN Throw(args.pos)
                  ELSE CallLoop(toks, args.pos + 1,
                                FunctionCall(expr.v, args.node.c))
         ELSE Throw(pos + 1)
    ELSE Ok(pos, expr)

\* the key-value pairs of a dictionary literal
DictPairs(toks, pos, pairs) ==
    LET key == Invoke("parseExpression", toks, pos)
    IN  IF ~key.ok THEN key
        ELSE IF ~check(toks, key.pos, "COLON") THEN Throw(key.pos)
        ELSE LET value == Invoke("parseExpression", toks, key.pos + 1)
                 all == Append(pairs, Node("pair", "", 0, <<key.node, value.node>>))
             IN  IF ~value.ok THEN value
                 ELSE IF match(toks, value.pos, {"COMMA"})
                 THEN DictPairs(toks, value.pos + 1, all)
                 ELSE Ok(value.pos, Node("pairs", "", 0, all))

parsePrimary(toks, pos) ==
    LET t == peek(toks, pos)
    IN  IF match(toks, pos, {"TRUE", "FALSE"})
        THEN Ok(pos + 1, Node("BoolLiteral", "",
                              IF t.value = "True" THEN 1 ELSE 0, <<>>))
        ELSE IF match(toks, pos, {"INTEGER"})
        THEN IF stoi(t.value) < 0 THEN Throw(pos + 1)
             ELSE Ok(pos + 1, IntLiteral(stoi(t.value)))
        ELSE IF match(toks, pos, {"FLOAT"})
        THEN Ok(pos + 1, Node("FloatLiteral", t.value, 0, <<>>))
        ELSE IF match(toks, pos, {"STRING"})
        THEN Ok(pos + 1, Node("StringLiteral", t.value, 0, <<>>))
        ELSE IF match(toks, pos, {"IDENTIFIER"})
        THEN Ok(pos + 1, Identifier(t.value))
        ELSE IF match(toks, pos, {"LPAREN"})
        THEN LET firstExpr == Invoke("parseExpression", toks, pos + 1)
             IN  IF ~firstExpr.ok THEN firstExpr
                 ELSE IF match(toks, firstExpr.pos, {"COMMA"})
                 THEN LET rest == ExpressionList(toks, firstExpr.pos + 1,
                                                 <<firstExpr.node>>)
                      IN  IF ~rest.ok THEN rest
                          ELSE IF ~check(toks, rest.pos, "RPAREN")
                          THEN Throw(rest.pos)
                          ELSE Ok(rest.pos + 1, TupleExpression(rest.node.c))
                 ELSE IF ~check(toks, firstExpr.pos, "RPAREN")
                 THEN Throw(firstExpr.pos)
                 ELSE Ok(firstExpr.pos + 1, firstExpr.node)
        ELSE IF match(toks, pos, {"LBRACKET"})
        THEN IF match(toks, pos + 1, {"RBRACKET"})
             THEN Ok(pos + 2, Node("ListLiteral", "", 0, <<>>))
             ELSE LET elems == ExpressionList(toks, pos + 1, <<>>)
                  IN  IF ~elems.ok THEN elems
                      ELSE IF ~check(toks, elems.pos, "RBRACKET")
                      THEN Throw(elems.pos)
                      ELSE Ok(elems.pos + 1,
                              Node("ListLiteral", "", 0, elems.node.c))
        ELSE IF match(toks, pos, {"LBRACE"})
        THEN IF match(toks, pos + 1, {"RBRACE"})
             THEN Ok(pos + 2, Node("DictLiteral", "", 0, <<>>))
             ELSE LET pairs == DictPairs(toks, pos + 1, <<>>)
                  IN  IF ~pairs.ok THEN pairs
                      ELSE IF ~check(toks, pairs.pos, "RBRACE")
                      THEN Throw(pairs.pos)
                      ELSE Ok(pairs.pos + 1,
                              Node("DictLiteral", "", 0, pairs.node.c))
        ELSE Throw(pos)

RECURSIVE SynchronizeLoop(_, _)
SynchronizeLoop(toks, pos) ==
    IF isAtEnd(toks, pos) THEN pos
    ELSE IF previous(toks, pos).type \in {"SEMICOLON", "NEWLINE"} THEN pos
    ELSE IF peek(toks, pos).type \in
              {"STRUCT", "ENUM", "IF", "WHILE", "FOR", "RETURN"} THEN pos
    ELSE SynchronizeLoop(toks, advance(toks, pos))

\* the cursor after synchronize()
synchronize(toks, pos) == SynchronizeLoop(toks, advance(toks, pos))

parseVariableDeclaration(toks, pos) ==
    LET p1 == advance(toks, pos)
        first == previous(toks, p1)
    IN  IF first.type = "IDENTIFIER"
        THEN IF match(toks, p1, AssignOps)
             THEN LET assignOp == peek(toks, p1).type
                      p2 == p1 + 1
                  IN  IF assignOp = "ASSIGN"
                      THEN IF isTypeKeyword(peek(toks, p2).type)
                           THEN LET type == Invoke("parseType", toks, p2)
                                    init == Invoke("parseExpression", toks, type.pos)
                                IN  IF ~init.ok THEN init
                                    ELSE Ok(init.pos,
                                            VariableDeclaration(first.value,
                                                type.node, init.node, TRUE))
                           ELSE LET init == Invoke("parseExpression", toks, p2)
                                IN  IF ~init.ok THEN init
                                    ELSE Ok(init.pos,
                                            VariableDeclaration(first.value,
                                                Type("", ""), init.node, FALSE))
                      ELSE LET binaryOp == CompoundOp(assignOp)
                               rightExpr == Invoke("parseExpression", toks, p2)
                               leftId == Identifier(first.value)
                               binaryExpr == BinaryExpression(leftId, binaryOp,
                                                              rightExpr.node)
                           IN  IF ~rightExpr.ok THEN rightExpr
                               ELSE Ok(rightExpr.pos,
                                       VariableDeclaration(first.value,
                                           Type("", ""), binaryExpr, FALSE))
             ELSE IF isTypeKeyword(peek(toks, p1).type)
             THEN LET type == Invoke("parseType", toks, p1)
                      eq == consume(toks, type.pos, "ASSIGN")
                      init == Invoke("parseExpression", toks, eq.pos)
                  IN  IF ~eq.ok THEN eq
                      ELSE IF ~init.ok THEN init
                      ELSE Ok(init.pos, VariableDeclaration(first.value,
                                            type.node, init.node, TRUE))
             ELSE Throw(p1)
        ELSE IF isTypeKeyword(first.type)
        THEN LET type == tokenToType(first.type, first.value)
                 varName == consume(toks, p1, "IDENTIFIER")
                 eq == consume(toks, varName.pos, "ASSIGN")
                 init == Invoke("parseExpression", toks, eq.pos)
             IN  IF ~varName.ok THEN varName
                 ELSE IF ~eq.ok THEN eq
                 ELSE IF ~init.ok THEN init
                 ELSE Ok(init.pos, VariableDeclaration(peek(toks, p1).value,
                                       type, init.node, TRUE))
        ELSE Throw(p1)

\* try parseVariableDeclaration; catch (...) and parse an expression
\* statement from the saved cursor
parseVariableDeclarationOrExpression(toks, pos) ==
    LET decl == Invoke("parseVariableDeclaration", toks, pos)
    IN  IF decl.ok THEN decl
        ELSE LET expr == Invoke("parseExpression", toks, pos)
             IN  IF ~expr.ok THEN expr
                 ELSE Ok(SkipTerminator(toks, expr.pos),
                         ExpressionStatement(expr.node))

\* the elements of a tuple, or the expression alone
TupleElements(expr) == IF expr.k = "TupleExpression" THEN expr.c ELSE <<expr>>

parseTupleAssignmentOrExpression(toks, pos) ==
    LET tupleExpr == Invoke("parseExpression", toks, pos)
    IN  IF ~tupleExpr.ok THEN tupleExpr
        ELSE IF match(toks, tupleExpr.pos, AssignOps)
        THEN IF peek(toks, tupleExpr.pos).type = "ASSIGN"
             THEN LET rightExpr == Invoke("parseExpression", toks, tupleExpr.pos + 1)
                  IN  IF ~rightExpr.ok THEN rightExpr
                      ELSE Ok(SkipTerminator(toks, rightExpr.pos),
                              Node("TupleAssignment", "", 0,
                                   <<Node("targets", "", 0,
                                          TupleElements(tupleExpr.node)),
                                     Node("values", "", 0,
                                          TupleElements(rightExpr.node))>>))
             ELSE Throw(tupleExpr.pos + 1)
        ELSE Ok(SkipTerminator(toks, tupleExpr.pos),
                ExpressionStatement(tupleExpr.node))

\* the fields of a struct up to the closing brace
RECURSIVE StructFields(_, _, _)
StructFields(toks, pos, fields) ==
    IF ~check(toks, pos, "RBRACE") /\ ~isAtEnd(toks, pos)
    THEN IF match(toks, pos, {"NEWLINE"}) THEN StructFields(toks, pos + 1, fields)
         ELSE LET fieldName == consume(toks, pos, "IDENTIFIER")
                  fieldType == Invoke("parseType", toks, fieldName.pos)
              IN  IF ~fieldName.ok THEN fieldName
                  ELSE IF ~fieldType.ok THEN fieldType
                  ELSE StructFields(toks, SkipTerminator(toks, fieldType.pos),
                           Append(fields, Node("field", peek(toks, pos).value, 0,
                                               <<fieldType.node>>)))
    ELSE Ok(pos, Node("fields", "", 0, fields))

parseStructDeclaration(toks, pos) ==
    LET name == consume(toks, pos, "IDENTIFIER")
        open == consume(toks, name.pos, "LBRACE")
        fields == StructFields(toks, open.pos, <<>>)
        close == consume(toks, fields.pos, "RBRACE")
    IN  IF ~name.ok THEN name
        ELSE IF ~open.ok THEN open
        ELSE IF ~fields.ok THEN fields
        ELSE IF ~close.ok THEN close
        ELSE Ok(close.pos, Node("StructDeclaration", peek(toks, pos).value, 0,
                                fields.node.c))

\* the values of an enum up to the closing brace; value is the next number
RECURSIVE EnumValues(_, _, _, _)
EnumValues(toks, pos, values, value) ==
    IF ~check(toks, pos, "RBRACE") /\ ~isAtEnd(toks, pos)
    THEN IF match(toks, pos, {"NEWLINE"})
         THEN EnumValues(toks, pos + 1, values, value)
         ELSE LET valueName == consume(toks, pos, "IDENTIFIER")
                  explicit == match(toks, valueName.pos, {"ASSIGN"})
                  valueToken == consume(toks, valueName.pos + 1, "INTEGER")
                  given == stoi(peek(toks, valueName.pos + 1).value)
                  v == IF explicit THEN given ELSE value
                  p == IF explicit THEN valueToken.pos ELSE valueName.pos
                  next == IF check(toks, p, "RBRACE") THEN p
                          ELSE matched(toks, p, {"COMMA", "NEWLINE"})
              IN  IF ~valueName.ok THEN valueName
                  ELSE IF explicit /\ ~valueToken.ok THEN valueToken
                  ELSE IF explicit /\ given < 0 THEN Throw(valueToken.pos)
                  ELSE EnumValues(toks, next,
                           Append(values, Node("value", peek(toks, pos).value,
                                               v, <<>>)),
                           v + 1)
    ELSE Ok(pos, Node("values", "", 0, values))

parseEnumDeclaration(toks, pos) ==
    LET name == consume(toks, pos, "IDENTIFIER")
        open == consume(toks, name.pos, "LBRACE")
        values == EnumValues(toks, open.pos, <<>>, 0)
        close == consume(toks, values.pos, "RBRACE")
    IN  IF ~name.ok THEN name
        ELSE IF ~open.ok THEN open
        ELSE IF ~values.ok THEN values
        ELSE IF ~close.ok THEN close
        ELSE Ok(close.pos, Node("EnumDeclaration", peek(toks, pos).value, 0,
                                values.node.c))

\* do { consume(IDENTIFIER) } while (match({COMMA})): the names
RECURSIVE VariableNames(_, _, _)
VariableNames(toks, pos, names) ==
    LET varName == consume(toks, pos, "IDENTIFIER")
        all == Append(names, Identifier(peek(toks, pos).value))
    IN  IF ~varName.ok THEN varName
        ELSE IF match(toks, varName.pos, {"COMMA"})
        THEN VariableNames(toks, varName.pos + 1, all)
        ELSE Ok(varName.pos, Node("variables", "", 0, all))

parseGlobalStatement(toks, pos) ==
    IF ~check(toks, pos, "IDENTIFIER") THEN Throw(pos)
    ELSE LET names == VariableNames(toks, pos, <<>>)
         IN  IF ~names.ok THEN names
             ELSE Ok(SkipTerminator(toks, names.pos),
                     Node("GlobalStatement", "", 0, names.node.c))

parseLocalStatement(toks, pos) ==
    IF ~check(toks, pos, "IDENTIFIER") THEN Throw(pos)
    ELSE LET names == VariableNames(toks, pos, <<>>)
         IN  IF ~names.ok THEN names
             ELSE Ok(SkipTerminator(toks, names.pos),
                     Node("LocalStatement", "", 0, names.node.c))

parseReturnStatement(toks, pos) ==
    IF /\ ~check(toks, pos, "NEWLINE") /\ ~check(toks, pos, "SEMICOLON")
       /\ ~isAtEnd(toks, pos)
    THEN LET value == Invoke("parseExpression", toks, pos)
         IN  IF ~value.ok THEN value
             ELSE Ok(SkipTerminator(toks, value.pos),
                     Node("ReturnStatement", "", 0, <<value.node>>))
    ELSE Ok(SkipTerminator(toks, pos), Node("ReturnStatement", "", 0, <<Nil>>))

parseBreakStatement(toks, pos) ==
    Ok(SkipTerminator(toks, pos), Node("BreakStatement", "", 0, <<>>))

parseContinueStatement(toks, pos) ==
    Ok(SkipTerminator(toks, pos), Node("ContinueStatement", "", 0, <<>>))

parsePassStatement(toks, pos) ==
    Ok(SkipTerminator(toks, pos), Node("PassStatement", "", 0, <<>>))

\* the parameters of a function declaration
RECURSIVE Parameters(_, _, _)
Parameters(toks, pos, params) ==
    LET paramName == consume(toks, pos, "IDENTIFIER")
        p1 == paramName.pos
        paramType == IF check(toks, p1, "COLON") THEN Invoke("parseType", toks, p1 + 1)
                     ELSE IF isTypeToken(peek(toks, p1)) THEN Invoke("parseType", toks, p1)
                     ELSE Ok(p1, Type("UNKNOWN", ""))
        hasExplicitType == check(toks, p1, "COLON") \/ isTypeToken(peek(toks, p1))
        all == Append(params, Node("Parameter", peek(toks, pos).value,
                                   IF hasExplicitType THEN 1 ELSE 0,
                                   <<paramType.node>>))
    IN  IF ~paramName.ok THEN paramName
        ELSE IF ~paramType.ok THEN paramType
        ELSE IF match(toks, paramType.pos, {"COMMA"})
        THEN Parameters(toks, paramType.pos + 1, all)
        ELSE Ok(paramType.pos, Node("parameters", "", 0, all))

RECURSIVE BlockLoop(_, _, _)

\* the dispatch of parseStatement's try block
StatementOf(toks, pos) ==
    IF check(toks, pos, "IDENTIFIER") /\ peek(toks, pos).value = "fn"
    THEN Invoke("parseFunctionDeclaration", toks, pos + 1)
    ELSE IF check(toks, pos, "LPAREN")
    THEN Invoke("parseTupleAssignmentOrExpression", toks, pos)
    ELSE IF match(toks, pos, {"GLOBAL"}) THEN Invoke("parseGlobalStatement", toks, pos + 1)
    ELSE IF match(toks, pos, {"LOCAL"}) THEN Invoke("parseLocalStatement", toks, pos + 1)
    ELSE IF match(toks, pos, {"STRUCT"}) THEN Invoke("parseStructDeclaration", toks, pos + 1)
    ELSE IF match(toks, pos, {"ENUM"}) THEN Invoke("parseEnumDeclaration", toks, pos + 1)
    ELSE IF match(toks, pos, {"IF"}) THEN Invoke("parseIfStatement", toks, pos + 1)
    ELSE IF match(toks, pos, {"WHILE"}) THEN Invoke("parseWhileStatement", toks, pos + 1)
    ELSE IF match(toks, pos, {"FOR"}) THEN Invoke("parseForStatement", toks, pos + 1)
    ELSE IF match(toks, pos, {"RETURN"}) THEN Invoke("parseReturnStatement", toks, pos + 1)
    ELSE IF match(toks, pos, {"BREAK"}) THEN Invoke("parseBreakStatement", toks, pos + 1)
    ELSE IF match(toks, pos, {"CONTINUE"})
    THEN Invoke("parseContinueStatement", toks, pos + 1)
    ELSE IF match(toks, pos, {"PASS"}) THEN Invoke("parsePassStatement", toks, pos + 1)
    ELSE IF match(toks, pos, {"LBRACE"}) THEN Invoke("parseBlockStatement", toks, pos + 1)
    ELSE Invoke("parseVariableDeclarationOrExpression", toks, pos)

\* catch: synchronize() and rethrow
parseStatement(toks, pos) ==
    LET stmt == StatementOf(toks, pos)
    IN  IF stmt.ok THEN stmt ELSE Throw(synchronize(toks, stmt.pos))

parseFunctionDeclaration(toks, pos) ==
    LET name == consume(toks, pos, "IDENTIFIER")
        open == consume(toks, name.pos, "LPAREN")
        params == IF check(toks, open.pos, "RPAREN")
                  THEN Ok(open.pos, Node("parameters", "", 0, <<>>))
                  ELSE Parameters(toks, open.pos, <<>>)
        close == consume(toks, params.pos, "RPAREN")
        arrow == match(toks, close.pos, {"ARROW"})
        returnType == IF arrow THEN Invoke("parseType", toks, close.pos + 1)
                      ELSE Ok(close.pos, Type("VOID", ""))
        p == returnType.pos
    IN  IF ~name.ok THEN name
        ELSE IF ~open.ok THEN open
        ELSE IF ~params.ok THEN params
        ELSE IF ~close.ok THEN close
        ELSE IF ~returnType.ok THEN returnType
        ELSE IF match(toks, p, {"FAT_ARROW"})
        THEN LET expression == Invoke("parseExpression", toks, p + 1)
             IN  IF ~expression.ok THEN expression
                 ELSE Ok(expression.pos,
                         FunctionDeclaration(peek(toks, pos).value,
                             params.node.c, returnType.node, TRUE,
                             <<expression.node>>))
        ELSE IF ~check(toks, p, "LBRACE") THEN Throw(p)
        \* consume(LBRACE); current--: the block is parsed from the brace
        ELSE LET block == Invoke("parseBlockStatement", toks, p)
             IN  IF ~block.ok THEN block
                 ELSE Ok(block.pos,
                         FunctionDeclaration(peek(toks, pos).value,
                             params.node.c, returnType.node, FALSE,
                             block.node.c))

parseIfStatement(toks, pos) ==
    LET condition == Invoke("parseExpression", toks, pos)
    IN  IF ~condition.ok THEN condition
        ELSE LET thenBranch == Invoke("parseStatement", toks, condition.pos)
                 p == thenBranch.pos
             IN  IF ~thenBranch.ok THEN thenBranch
                 ELSE IF match(toks, p, {"ELIF"})
                 \* current--: the statement is parsed from the elif token
                 THEN LET elseBranch == Invoke("parseStatement", toks, p)
                      IN  IF ~elseBranch.ok THEN elseBranch
                          ELSE Ok(elseBranch.pos,
                                  IfStatement(condition.node, thenBranch.node,
                                              elseBranch.node))
                 ELSE IF match(toks, p, {"ELSE"})
                 THEN LET elseBranch == Invoke("parseStatement", toks, p + 1)
                      IN  IF ~elseBranch.ok THEN elseBranch
                          ELSE Ok(elseBranch.pos,
                                  IfStatement(condition.node, thenBranch.node,
                                              elseBranch.node))
                 ELSE Ok(p, IfStatement(condition.node, thenBranch.node, Nil))

parseWhileStatement(toks, pos) ==
    LET condition == Invoke("parseExpression", toks, pos)
    IN  IF ~condition.ok THEN condition
        ELSE LET body == Invoke("parseStatement", toks, condition.pos)
             IN  IF ~body.ok THEN body
                 ELSE Ok(body.pos, Node("WhileStatement", "", 0,
                                        <<condition.node, body.node>>))

parseForStatement(toks, pos) ==
    LET variable == consume(toks, pos, "IDENTIFIER")
    IN  IF ~variable.ok THEN variable
        ELSE IF ~check(toks, variable.pos, "IN") THEN Throw(variable.pos)
        ELSE LET iterable == Invoke("parseExpression", toks, advance(toks, variable.pos))
             IN  IF ~iterable.ok THEN iterable
                 ELSE LET body == Invoke("parseStatement", toks, iterable.pos)
                      IN  IF ~body.ok THEN body
                          ELSE Ok(body.pos,
                                  Node("ForInStatement", peek(toks, pos).value, 0,
                                       <<iterable.node, body.node>>))

parseBlockStatement(toks, pos) == BlockLoop(toks, pos, <<>>)

\* the statements of a block up to the closing brace
BlockLoop(toks, pos, statements) ==
    IF ~check(toks, pos, "RBRACE") /\ ~isAtEnd(toks, pos)
    THEN IF match(toks, pos, {"NEWLINE"}) THEN BlockLoop(toks, pos + 1, statements)
         ELSE LET stmt == Invoke("parseStatement", toks, pos)
              IN  IF ~stmt.ok THEN stmt
                  ELSE BlockLoop(toks, stmt.pos,
                                 IF stmt.node = Nil THEN statements
                                 ELSE Append(statements, stmt.node))
    ELSE IF ~check(toks, pos, "RBRACE") THEN Throw(pos)
    ELSE Ok(pos + 1, BlockStatement(statements))

\* the call of a parse function: each one calls the others through this
Invoke(f, toks, pos) ==
    CASE f = "parseExpressionWithTerminators" -> parseExpressionWithTerminators(toks, pos)
      [] f = "parseExpression" -> parseExpression(toks, pos)
      [] f = "parseLogicalOr" -> parseLogicalOr(toks, pos)
      [] f = "parseLogicalAnd" -> parseLogicalAnd(toks, pos)
      [] f = "parseEquality" -> parseEquality(toks, pos)
      [] f = "parseComparison" -> parseComparison(toks, pos)
      [] f = "parseTerm" -> parseTerm(toks, pos)
      [] f = "parseFactor" -> parseFactor(toks, pos)
      [] f = "parsePower" -> parsePower(toks, pos)
      [] f = "parseUnary" -> parseUnary(toks, pos)
      [] f = "parseCall" -> parseCall(toks, pos)
      [] f = "parsePrimary" -> parsePrimary(toks, pos)
      [] f = "parseType" -> parseType(toks, pos)
      [] f = "parseVariableDeclarationOrExpression" -> parseVariableDeclarationOrExpression(toks, pos)
      [] f = "parseVariableDeclaration" -> parseVariableDeclaration(toks, pos)
      [] f = "parseTupleAssignmentOrExpression" -> parseTupleAssignmentOrExpression(toks, pos)
      [] f = "parseStructDeclaration" -> parseStructDeclaration(toks, pos)
      [] f = "parseEnumDeclaration" -> parseEnumDeclaration(toks, pos)
      [] f = "parseGlobalStatement" -> parseGlobalStatement(toks, pos)
      [] f = "parseLocalStatement" -> parseLocalStatement(toks, pos)
      [] f = "parseIfStatement" -> parseIfStatement(toks, pos)
      [] f = "parseWhileStatement" -> parseWhileStatement(toks, pos)
      [] f = "parseForStatement" -> parseForStatement(toks, pos)
      [] f = "parseReturnStatement" -> parseReturnStatement(toks, pos)
      [] f = "parseBreakStatement" -> parseBreakStatement(toks, pos)
      [] f = "parseContinueStatement" -> parseContinueStatement(toks, pos)
      [] f = "parsePassStatement" -> parsePassStatement(toks, pos)
      [] f = "parseBlockStatement" -> parseBlockStatement(toks, pos)
      [] f = "parseFunctionDeclaration" -> parseFunctionDeclaration(toks, pos)
      [] f = "parseStatement" -> parseStatement(toks, pos)

(* Parser::parse, one iteration of its loop per step *)

\* parse() is still in its loop
Parsing == ~perror /\ ~isAtEnd(tokens, current)

\* parse() has returned the program, or an exception has left it
Finished == perror \/ isAtEnd(tokens, current)

\* the newline branch backing up instead of advancing: { current--; continue; }
ParseSkipNewlineRewound ==
    /\ Parsing
    /\ peek(tokens, current).type = "NEWLINE"
    /\ current' = current - 1
    /\ UNCHANGED <<tokens, program, perror, expect>>
    /\ UNCHANGED <<commonVars, listVars, dictVars, rangeVars, compilerVars>>

\* if (peek().type == NEWLINE) { advance(); continue; }
ParseSkipNewline ==
    /\ Parsing
    /\ peek(tokens, current).type = "NEWLINE"
    /\ current' = advance(tokens, current)
    /\ UNCHANGED <<tokens, program, perror, expect>>
    /\ UNCHANGED <<commonVars, listVars, dictVars, rangeVars, compilerVars>>

\* if (stmt) program->statements.push_back(std::move(stmt))
PushStatement(stmt) ==
    /\ stmt.ok
    /\ current' = stmt.pos
    /\ program' = IF stmt.node = Nil THEN program ELSE Append(program, stmt.node)

\* the exception leaves parse() with the cursor where synchronize() left it
Unwind(stmt) ==
    /\ ~stmt.ok
    /\ current' = stmt.pos

\* auto stmt = parseStatement(); program->statements.push_back(stmt)
ParseStatement ==
    /\ Parsing
    /\ peek(tokens, current).type # "NEWLINE"
    /\ PushStatement(Invoke("parseStatement", tokens, current))
    /\ UNCHANGED <<tokens, perror, expect>>
    /\ UNCHANGED <<commonVars, listVars, dictVars, rangeVars, compilerVars>>

\* parseStatement() throws: parse() has no handler, the exception leaves
\* it and the Program built so far is destroyed
ParseThrow ==
    /\ Parsing
    /\ peek(tokens, current).type # "NEWLINE"
    /\ Unwind(Invoke("parseStatement", tokens, current))
    /\ perror' = TRUE
    /\ program' = <<>>
    /\ UNCHANGED <<tokens, expect>>
    /\ UNCHANGED <<commonVars, listVars, dictVars, rangeVars, compilerVars>>

NextParser == ParseSkipNewline \/ ParseStatement \/ ParseThrow

---------------------------------------------------------------------------
(* Token streams: each is written from the program the grammar assigns to  *)
(* it, [form, toks, ast]                                                   *)

Src(toks, ast) == [toks |-> toks, ast |-> ast]
Sym(type) == Tok(type, "")
Id(name) == Tok("IDENTIFIER", name)
Num(lexeme) == Tok("INTEGER", lexeme)

IndexExpression(object, index) == Node("IndexExpression", "", 0, <<object, index>>)
PassStatement == Node("PassStatement", "", 0, <<>>)

ExprForms ==
    { Src(<<Num("1")>>, IntLiteral(1)),
      Src(<<Num("07")>>, IntLiteral(7)),
      Src(<<Id("y")>>, Identifier("y")),
      Src(<<Num("1"), Sym("PLUS"), Num("2")>>,
          BinaryExpression(IntLiteral(1), "ADD", IntLiteral(2))),
      Src(<<Id("y"), Sym("MULTIPLY"), Num("2")>>,
          BinaryExpression(Identifier("y"), "MUL", IntLiteral(2))),
      Src(<<Sym("MINUS"), Id("y")>>, UnaryExpression("MINUS", Identifier("y"))),
      Src(<<Id("f"), Sym("LPAREN"), Id("y"), Sym("RPAREN")>>,
          FunctionCall("f", <<Identifier("y")>>)),
      Src(<<Sym("LPAREN"), Id("y"), Sym("COMMA"), Num("1"), Sym("RPAREN")>>,
          TupleExpression(<<Identifier("y"), IntLiteral(1)>>)),
      Src(<<Sym("LPAREN"), Num("1"), Sym("PLUS"), Num("2"), Sym("RPAREN"),
            Sym("MULTIPLY"), Id("y")>>,
          BinaryExpression(BinaryExpression(IntLiteral(1), "ADD", IntLiteral(2)),
                           "MUL", Identifier("y"))),
      Src(<<Id("a"), Sym("LBRACKET"), Num("0"), Sym("RBRACKET")>>,
          IndexExpression(Identifier("a"), IntLiteral(0))) }

\* the arithmetic operator a compound assignment operator stands for
ArithmeticOf(op) ==
    CASE op = "PLUS_ASSIGN" -> "ADD"
      [] op = "MINUS_ASSIGN" -> "SUB"
      [] op = "MULTIPLY_ASSIGN" -> "MUL"
      [] op = "DIVIDE_ASSIGN" -> "DIV"
      [] op = "MODULO_ASSIGN" -> "MOD"

\* the ends of a stream: nothing, a newline, the end-of-input token
Tails == {<<>>, <<Sym("NEWLINE")>>, <<EOFToken>>}

\* x op= e
CompoundStreams ==
    { [form |-> "compound",
       toks |-> <<Id(x), Sym(op)>> \o e.toks \o tail,
       ast |-> <<VariableDeclaration(x, Type("", ""),
                     BinaryExpression(Identifier(x), ArithmeticOf(op), e.ast),
                     FALSE)>>]
      : x \in {"x", "total"}, op \in AssignOps \ {"ASSIGN"},
        e \in ExprForms, tail \in Tails }

StmtForms ==
    { Src(<<Sym("PASS")>>, PassStatement),
      Src(<<Id("x"), Sym("ASSIGN"), Num("1")>>,
          VariableDeclaration("x", Type("", ""), IntLiteral(1), FALSE)),
      Src(<<Id("out"), Sym("LPAREN"), Id("x"), Sym("RPAREN")>>,
          ExpressionStatement(FunctionCall("out", <<Identifier("x")>>))),
      Src(<<Sym("RETURN"), Id("x")>>,
          Node("ReturnStatement", "", 0, <<Identifier("x")>>)) }

\* S1 ... Sn between the braces, n <= 2
BodyForms ==
    {Src(<<>>, <<>>)}
    \cup { Src(s.toks, <<s.ast>>) : s \in StmtForms }
    \cup { Src(<<Sym("NEWLINE")>> \o s.toks \o <<Sym("NEWLINE")>> \o t.toks
              \o <<Sym("NEWLINE")>>, <<s.ast, t.ast>>)
           : s \in StmtForms, t \in {u \in StmtForms : u.ast.k = "ReturnStatement"} }

ParamForms ==
    { Src(<<>>, <<>>),
      Src(<<Id("a")>>, <<Node("Parameter", "a", 0, <<Type("UNKNOWN", "")>>)>>),
      Src(<<Id("a"), Sym("COLON"), Sym("INT"), Sym("COMMA"), Id("b")>>,
          <<Node("Parameter", "a", 1, <<Type("INT32", "")>>),
            Node("Parameter", "b", 0, <<Type("UNKNOWN", "")>>)>>) }

\* what follows the declaration: nothing, or a call of main
SiblingForms ==
    { Src(<<>>, <<>>),
      Src(<<Id("main"), Sym("LPAREN"), Sym("RPAREN")>>,
          <<ExpressionStatement(FunctionCall("main", <<>>))>>),
      Src(<<Sym("NEWLINE"), Id("main"), Sym("LPAREN"), Sym("RPAREN"),
            Sym("NEWLINE")>>,
          <<ExpressionStatement(FunctionCall("main", <<>>))>>) }

\* fn NAME ( params ) { S1 ... Sn } siblings
FunctionStreams ==
    { [form |-> "fn",
       toks |-> <<Id("fn"), Id(name), Sym("LPAREN")>> \o p.toks
                \o <<Sym("RPAREN"), Sym("LBRACE")>> \o b.toks
                \o <<Sym("RBRACE")>> \o r.toks,
       ast |-> <<FunctionDeclaration(name, p.ast, Type("VOID", ""), FALSE,
                                     b.ast)>> \o r.ast]
      : name \in {"main", "f"}, p \in ParamForms, b \in BodyForms,
        r \in SiblingForms }

CondForms ==
    { Src(<<Id("x")>>, Identifier("x")),
      Src(<<Id("x"), Sym("LT"), Num("1")>>,
          BinaryExpression(Identifier("x"), "LT", IntLiteral(1))) }

BranchForms ==
    { Src(<<Sym("LBRACE"), Sym("PASS"), Sym("RBRACE")>>,
          BlockStatement(<<PassStatement>>)),
      Src(<<Sym("PASS"), Sym("NEWLINE")>>, PassStatement) }

ElseForms ==
    {Src(<<>>, Nil)} \cup { Src(<<Sym("ELSE")>> \o s.toks, s.ast) : s \in BranchForms }

\* if c1 S1 elif c2 S2 [else S3]
ElifStreams ==
    { [form |-> "elif",
       toks |-> <<Sym("IF")>> \o c1.toks \o s1.toks \o <<Sym("ELIF")>>
                \o c2.toks \o s2.toks \o e.toks,
       ast |-> <<IfStatement(c1.ast, s1.ast,
                             IfStatement(c2.ast, s2.ast, e.ast))>>]
      : c1 \in CondForms, s1 \in BranchForms, c2 \in CondForms,
        s2 \in BranchForms, e \in ElseForms }

\* statements on their own, if with and without else, and an
\* expression-bodied function
OtherStreams ==
    { [form |-> "other", toks |-> s.toks \o tail, ast |-> <<s.ast>>]
      : s \in StmtForms, tail \in Tails }
    \cup { [form |-> "other",
            toks |-> <<Sym("IF")>> \o c.toks \o s.toks \o e.toks,
            ast |-> <<IfStatement(c.ast, s.ast, e.ast)>>]
           : c \in CondForms, s \in BranchForms, e \in ElseForms }
    \cup { [form |-> "other",
            toks |-> <<Id("fn"), Id("f"), Sym("LPAREN")>> \o p.toks
                     \o <<Sym("RPAREN"), Sym("FAT_ARROW")>> \o e.toks,
            ast |-> <<FunctionDeclaration("f", p.ast, Type("VOID", ""), TRUE,
                                          <<e.ast>>)>>]
           : p \in ParamForms, e \in {f \in ExprForms : f.ast.k # "IndexExpression"} }

\* statements the grammar rejects
ErrorForms ==
    { <<Sym("RPAREN")>>,
      <<Id("x"), Sym("ASSIGN"), Sym("RPAREN")>>,
      <<Sym("STRUCT"), Num("1")>> }

Terminators == {<<Sym("NEWLINE")>>, <<Sym("SEMICOLON")>>}

\* two erroneous statements separated by well-formed ones:
\* e1 ; S1 ; e2 ; S2
RecoverStreams ==
    { [form |-> "recover",
       toks |-> e1 \o t \o s1.toks \o t \o e2 \o t \o s2.toks \o tail,
       ast |-> <<s1.ast, s2.ast>>]
      : e1 \in ErrorForms, e2 \in ErrorForms, t \in Terminators,
        s1 \in {s \in StmtForms : s.ast.k = "VariableDeclaration"},
        s2 \in {s \in StmtForms : s.ast.k \in {"PassStatement", "ExpressionStatement"}},
        tail \in {<<>>, <<Sym("NEWLINE")>>} }

ElementForms ==
    { Src(<<Num("1")>>, IntLiteral(1)),
      Src(<<Id("y")>>, Identifier("y")),
      Src(<<Num("1"), Sym("PLUS"), Num("2")>>,
          BinaryExpression(IntLiteral(1), "ADD", IntLiteral(2))) }

\* e1 , e2 , ... , en and the elements in source order, n in 1..MaxElements
MaxElements == 3
RECURSIVE ElementLists(_)
ElementLists(n) ==
    IF n = 1 THEN { Src(e.toks, <<e.ast>>) : e \in ElementForms }
    ELSE { Src(l.toks \o <<Sym("COMMA")>> \o e.toks, Append(l.ast, e.ast))
           : l \in ElementLists(n - 1), e \in ElementForms }

\* ( e1 , ... , en ), ( e1 , ... , en , ) and ( e1 ), as a statement and as
\* the value of an assignment
ParenForms ==
    { Src(<<Sym("LPAREN")>> \o l.toks \o <<Sym("RPAREN")>>,
          IF Len(l.ast) = 1 THEN l.ast[1] ELSE TupleExpression(l.ast))
      : l \in UNION { ElementLists(n) : n \in 1..MaxElements } }
    \cup
    { Src(<<Sym("LPAREN")>> \o l.toks \o <<Sym("COMMA"), Sym("RPAREN")>>,
          TupleExpression(l.ast))
      : l \in UNION { ElementLists(n) : n \in 1..(MaxElements - 1) } }

TupleStreams ==
    { [form |-> "tuple", toks |-> p.toks, ast |-> <<ExpressionStatement(p.ast)>>]
      : p \in ParenForms }
    \cup
    { [form |-> "tuple",
       toks |-> <<Id("t"), Sym("ASSIGN")>> \o p.toks,
       ast |-> <<VariableDeclaration("t", Type("", ""), p.ast, FALSE)>>]
      : p \in ParenForms }

\* the precedence table: the level of a binary operator token, low to high
LevelOf(type) ==
    CASE type = "OR" -> 1
      [] type = "AND" -> 2
      [] type \in {"EQ", "NE"} -> 3
      [] type \in {"LT", "LE", "GT", "GE"} -> 4
      [] type \in {"PLUS", "MINUS"} -> 5
      [] type \in {"MULTIPLY", "DIVIDE", "MODULO", "FLOOR_DIVIDE"} -> 6
      [] type = "POWER" -> 7

BinaryTokens ==
    {"OR", "AND", "EQ", "NE", "LT", "LE", "GT", "GE", "PLUS", "MINUS",
     "MULTIPLY", "DIVIDE", "MODULO", "FLOOR_DIVIDE", "POWER"}

\* the operator of the table a binary token stands for
OperatorOf(type) ==
    CASE type = "PLUS" -> "ADD"
      [] type = "MINUS" -> "SUB"
      [] type = "MULTIPLY" -> "MUL"
      [] type = "DIVIDE" -> "DIV"
      [] type = "MODULO" -> "MOD"
      [] type = "FLOOR_DIVIDE" -> "FLOOR_DIV"
      [] OTHER -> type

\* an operand: an identifier, bare or under one unary operator
Operands(name) ==
    { Src(<<Id(name)>>, Identifier(name)) }
    \cup { Src(<<Sym(u), Id(name)>>, UnaryExpression(u, Identifier(name)))
           : u \in {"NOT", "MINUS"} }

\* a op1 b op2 c grouped by the table: the tighter operator first, equal
\* levels to the left, ** to the right
Grouped(a, op1, b, op2, c) ==
    IF \/ LevelOf(op1) > LevelOf(op2)
       \/ (LevelOf(op1) = LevelOf(op2) /\ op1 # "POWER")
    THEN BinaryExpression(BinaryExpression(a, OperatorOf(op1), b),
                          OperatorOf(op2), c)
    ELSE BinaryExpression(a, OperatorOf(op1),
                          BinaryExpression(b, OperatorOf(op2), c))

PrecedenceStreams ==
    { [form |-> "precedence",
       toks |-> a.toks \o <<Sym(op1)>> \o b.toks \o <<Sym(op2)>> \o c.toks,
       ast |-> <<ExpressionStatement(Grouped(a.ast, op1, b.ast, op2, c.ast))>>]
      : a \in Operands("a"), b \in Operands("b"),
        c \in {Src(<<Id("c")>>, Identifier("c"))},
        op1 \in BinaryTokens, op2 \in BinaryTokens }

IndexForms ==
    { Src(x.toks \o <<Sym("LBRACKET")>> \o i.toks \o <<Sym("RBRACKET")>>,
          IndexExpression(x.ast, i.ast))
      : x \in { Src(<<Id("a")>>, Identifier("a")),
                Src(<<Id("rows")>>, Identifier("rows")) },
        i \in ElementForms }

\* x [ i ] as a statement, as a call argument and as an assigned value
IndexStreams ==
    { [form |-> "index", toks |-> e.toks \o tail,
       ast |-> <<ExpressionStatement(e.ast)>>]
      : e \in IndexForms, tail \in Tails }
    \cup
    { [form |-> "index",
       toks |-> <<Id("f"), Sym("LPAREN")>> \o e.toks \o <<Sym("RPAREN")>>,
       ast |-> <<ExpressionStatement(FunctionCall("f", <<e.ast>>))>>]
      : e \in IndexForms }
    \cup
    { [form |-> "index",
       toks |-> <<Id("v"), Sym("ASSIGN")>> \o e.toks,
       ast |-> <<VariableDeclaration("v", Type("", ""), e.ast, FALSE)>>]
      : e \in IndexForms }

ParserInputs ==
    CompoundStreams \cup FunctionStreams \cup ElifStreams \cup OtherStreams
    \cup RecoverStreams \cup TupleStreams \cup PrecedenceStreams
    \cup IndexStreams

InitParser ==
    /\ InitRuntime
    /\ InitCompilerIdle
    /\ \E s \in ParserInputs :
          /\ tokens = s.toks
          /\ expect = [form |-> s.form, ast |-> s.ast]
    /\ current = 0
    /\ program = <<>>
    /\ perror = FALSE

SpecParser == InitParser /\ [][NextParser]_vars

\* C8: for `fn NAME ( params ) { S1 ... Sn }` the parser produces a
\* FunctionDeclaration whose body is exactly S1..Sn, consumes the tokens up
\* to the closing brace and parses what follows as sibling statements, so
\* that parse() ends without error with the declaration and its siblings.
C8_BlockFunction ==
    (expect.form = "fn" /\ Finished) => (~perror /\ program = expect.ast)

\* `fn main ( ) { pass } main ( )` has ended in a parse error
C8_ParseError ==
    /\ tokens = <<Id("fn"), Id("main"), Sym("LPAREN"), Sym("RPAREN"),
                  Sym("LBRACE"), Sym("PASS"), Sym("RBRACE"),
                  Id("main"), Sym("LPAREN"), Sym("RPAREN")>>
    /\ perror

\* C9: parsing `x op= e` yields the assignment of x whose value is
\* Binary(Identifier x, op', E), op' the matching arithmetic operator and E
\* the complete parse of e as the single right operand.
C9_Desugar ==
    (expect.form = "compound" /\ Finished) => (~perror /\ program = expect.ast)

\* `x += a [ 0 ]` has been parsed without error as x = x + a followed by
\* the list literal [0]
C9_IndexOperandSplit ==
    /\ tokens = <<Id("x"), Sym("PLUS_ASSIGN"),
                  Id("a"), Sym("LBRACKET"), Num("0"), Sym("RBRACKET")>>
    /\ Finished /\ ~perror
    /\ Len(program) = 2
    /\ program[1] = VariableDeclaration("x", Type("", ""),
                        BinaryExpression(Identifier("x"), "ADD", Identifier("a")),
                        FALSE)
    /\ program[2].k = "ExpressionStatement"

\* C10: `if c1 S1 elif c2 S2 [else S3]` parses without error to
\* If(c1, S1, else = If(c2, S2, else = S3)).
C10_ElifNested ==
    (expect.form = "elif" /\ Finished) => (~perror /\ program = expect.ast)

\* `if x { pass } elif x { pass }` has ended in a parse error
C10_ParseError ==
    /\ tokens = <<Sym("IF"), Id("x"), Sym("LBRACE"), Sym("PASS"), Sym("RBRACE"),
                  Sym("ELIF"), Id("x"), Sym("LBRACE"), Sym("PASS"), Sym("RBRACE")>>
    /\ perror

\* C11: on a parse error the parser records it, skips to the next statement
\* terminator or statement keyword and resumes: for a stream with two
\* erroneous statements separated by well-formed ones, parse() reads the
\* tokens to their end and returns the Program of the well-formed statements
\* instead of stopping at the first error.
C11_Recovers ==
    (expect.form = "recover" /\ Finished)
        => (isAtEnd(tokens, current) /\ ~perror /\ program = expect.ast)

\* `) ; x = 1 ; ) ; pass` has left parse() by its first error, at the
\* cursor synchronize() reached, with no Program
C11_StoppedAtFirstError ==
    /\ tokens = <<Sym("RPAREN"), Sym("NEWLINE"),
                  Id("x"), Sym("ASSIGN"), Num("1"), Sym("NEWLINE"),
                  Sym("RPAREN"), Sym("NEWLINE"), Sym("PASS")>>
    /\ perror
    /\ current = 2
    /\ program = <<>>

\* C12: inside parentheses a comma after the first expression makes a
\* tuple: ( e1 , ... , en ) is the Tuple of the n elements in source order,
\* ( e1 , ) is the Tuple of e1 alone, without a parse error, and ( e1 ) is
\* e1 itself.
C12_TupleLiteral ==
    (expect.form = "tuple" /\ Finished) => (~perror /\ program = expect.ast)

\* `( y , )` has ended in a parse error
C12_TrailingCommaError ==
    /\ tokens = <<Sym("LPAREN"), Id("y"), Sym("COMMA"), Sym("RPAREN")>>
    /\ perror

\* C13: a op1 b op2 c parses by the precedence table: the operator of the
\* higher level binds tighter, operators of one level group to the left,
\* ** groups to the right, and a unary operator binds tighter than any
\* binary one.
C13_Precedence ==
    (expect.form = "precedence" /\ Finished)
        => (~perror /\ program = expect.ast)

\* `a ** b ** c` has been parsed to a ** (b ** c)
C13_Witness ==
    /\ tokens = <<Id("a"), Sym("POWER"), Id("b"), Sym("POWER"), Id("c")>>
    /\ Finished /\ ~perror
    /\ program = <<ExpressionStatement(
                     BinaryExpression(Identifier("a"), "POWER",
                         BinaryExpression(Identifier("b"), "POWER",
                                          Identifier("c"))))>>

\* C14: x [ i ] parses to a single Index expression of x and i, as a
\* statement and inside another expression such as a call argument.
C14_Index ==
    (expect.form = "index" /\ Finished) => (~perror /\ program = expect.ast)

\* `f ( a [ 1 ] )` has ended in a parse error
C14_ArgumentError ==
    /\ tokens = <<Id("f"), Sym("LPAREN"), Id("a"), Sym("LBRACKET"), Num("1"),
                  Sym("RBRACKET"), Sym("RPAREN")>>
    /\ perror

---------------------------------------------------------------------------
(* The code generator: compiler/runtime.c lines 1255-1806, class           *)
(* CodeGenerator.  output is the sequence of the instructions and labels   *)
(* emitted; comments, blank lines and section directives are left out.  An *)
(* instruction is [op, src, dst] and an operand [m, r, n]: its mode, its   *)
(* register or symbol, and its number (immediate, displacement or label    *)
(* number).  The generator's members are the record g.                     *)

NoOperand == [m |-> "none", r |-> "", n |-> 0]
Imm(n) == [m |-> "imm", r |-> "", n |-> n]
Reg(r) == [m |-> "reg", r |-> r, n |-> 0]
\* disp(%base)
Mem(base, disp) == [m |-> "mem", r |-> base, n |-> disp]
\* a symbol: a name, or a prefix and the number newLabel gave it
Symbol(name) == [m |-> "sym", r |-> name, n |-> 0]
Label(prefix, n) == [m |-> "lbl", r |-> prefix, n |-> n]

Ins(op, src, dst) == [op |-> op, src |-> src, dst |-> dst]
Ins1(op, dst) == Ins(op, NoOperand, dst)
Ins0(op) == Ins(op, NoOperand, NoOperand)
\* name:
Define(label) == Ins("label", NoOperand, label)

\* the members of a CodeGenerator after construction
NewGenerator ==
    [output |-> <<>>, nextLabel |-> 0, currentFunction |-> "",
     currentVariables |-> {}, currentStackOffset |-> 0, stringCounter |-> 0]

\* output << ...
Emit(g, instructions) == [g EXCEPT !.output = @ \o instructions]

\* currentVariables.find(name)
HasVariable(g, name) == \E v \in g.currentVariables : v.name = name
VariableInfo(g, name) == CHOOSE v \in g.currentVariables : v.name = name

\* currentVariables[name] = {stackOffset, isParameter}
SetVariable(g, name, isParameter) ==
    [g EXCEPT !.currentVariables =
        {v \in @ : v.name # name}
        \cup {[name |-> name, stackOffset |-> g.currentStackOffset,
               isParameter |-> isParameter]}]

generateRuntimeSupport(g) ==
    Emit(g, << Define(Symbol("print")),
               Ins1("push", Reg("rbp")),
               Ins("mov", Reg("rsp"), Reg("rbp")),
               Ins("mov", Reg("rdi"), Reg("rsi")),
               Ins("mov", Symbol("format_str"), Reg("rdi")),
               Ins("xor", Reg("rax"), Reg("rax")),
               Ins1("call", Symbol("printf")),
               Ins1("pop", Reg("rbp")),
               Ins0("ret"),
               Define(Symbol("print_int")),
               Ins1("push", Reg("rbp")),
               Ins("mov", Reg("rsp"), Reg("rbp")),
               Ins("mov", Reg("rdi"), Reg("rsi")),
               Ins("mov", Symbol("format_int"), Reg("rdi")),
               Ins("xor", Reg("rax"), Reg("rax")),
               Ins1("call", Symbol("printf")),
               Ins1("pop", Reg("rbp")),
               Ins0("ret"),
               Define(Symbol("exit")),
               Ins("mov", Imm(60), Reg("rax")),
               Ins("mov", Imm(0), Reg("rdi")),
               Ins0("syscall") >>)

visitIntLiteral(g, node) == Emit(g, <<Ins("mov", Imm(node.n), Reg("rax"))>>)

visitFloatLiteral(g, node) == Emit(g, <<Ins("movq", Imm(node.n), Reg("rax"))>>)

visitStringLiteral(g, node) ==
    [Emit(g, <<Ins("mov", Label("str_", g.stringCounter), Reg("rax"))>>)
        EXCEPT !.stringCounter = @ + 1]

visitBoolLiteral(g, node) ==
    Emit(g, <<Ins("mov", Imm(IF node.n # 0 THEN 1 ELSE 0), Reg("rax"))>>)

visitIdentifier(g, node) ==
    IF HasVariable(g, node.v)
    THEN Emit(g, <<Ins("mov", Mem("rbp", -VariableInfo(g, node.v).stackOffset),
                       Reg("rax"))>>)
    ELSE Emit(g, <<Ins("mov", Mem("rbp", -8), Reg("rax"))>>)

\* setCC %al; movzx %al, %rax after cmp %rbx, %rax
Compare(setcc) ==
    << Ins("cmp", Reg("rbx"), Reg("rax")),
       Ins1(setcc, Reg("al")),
       Ins("movzx", Reg("al"), Reg("rax")) >>

\* the switch (node.op) of visit(BinaryExpression)
BinaryOperation(op) ==
    CASE op = "ADD" -> <<Ins("add", Reg("rbx"), Reg("rax"))>>
      [] op = "SUB" -> <<Ins("sub", Reg("rbx"), Reg("rax"))>>
      [] op = "MUL" -> <<Ins("imul", Reg("rbx"), Reg("rax"))>>
      [] op = "DIV" -> << Ins("xor", Reg("rdx"), Reg("rdx")),
                          Ins1("idiv", Reg("rbx")) >>
      [] op = "MOD" -> << Ins("xor", Reg("rdx"), Reg("rdx")),
                          Ins1("idiv", Reg("rbx")),
                          Ins("mov", Reg("rdx"), Reg("rax")) >>
      [] op = "EQ" -> Compare("sete")
      [] op = "NE" -> Compare("setne")
      [] op = "LT" -> Compare("setl")
      [] op = "LE" -> Compare("setle")
      [] op = "GT" -> Compare("setg")
      [] op = "GE" -> Compare("setge")
      [] op = "AND" -> <<Ins("and", Reg("rbx"), Reg("rax"))>>
      [] op = "OR" -> <<Ins("or", Reg("rbx"), Reg("rax"))>>
      [] op = "POWER" ->
            << Ins1("push", Reg("rcx")),
               Ins1("push", Reg("rdx")),
               Ins("mov", Reg("rax"), Reg("rdx")),
               Ins("mov", Reg("rbx"), Reg("rcx")),
               Ins("mov", Imm(1), Reg("rax")),
               Ins("test", Reg("rcx"), Reg("rcx")),
               Ins1("jz", Symbol(".power_done")),
               Define(Symbol(".power_loop")),
               Ins("imul", Reg("rdx"), Reg("rax")),
               Ins1("dec", Reg("rcx")),
               Ins1("jnz", Symbol(".power_loop")),
               Define(Symbol(".power_done")),
               Ins1("pop", Reg("rdx")),
               Ins1("pop", Reg("rcx")) >>
      [] op = "FLOOR_DIV" -> << Ins("xor", Reg("rdx"), Reg("rdx")),
                                Ins1("idiv", Reg("rbx")) >>
      [] OTHER -> <<>>

\* the switch (node.op) of visit(UnaryExpression)
UnaryOperation(op) ==
    CASE op = "MINUS" -> <<Ins1("neg", Reg("rax"))>>
      [] op = "NOT" -> << Ins("test", Reg("rax"), Reg("rax")),
                          Ins1("setz", Reg("al")),
                          Ins("movzx", Reg("al"), Reg("rax")) >>
      [] OTHER -> <<>>

\* the registers of the calling convention, in order
ArgumentRegisters == <<"rdi", "rsi", "rdx", "rcx", "r8", "r9">>

RECURSIVE visit(_, _)

\* the generator has finished what it was emitting: its members are
\* values (nextLabel counts up from 0).  The loops below test it so that
\* each iteration is evaluated before the next one starts.
Complete(g) == g.nextLabel >= 0

\* stmt->accept(*this) for each statement in order
RECURSIVE visitAll(_, _)
visitAll(g, nodes) ==
    IF nodes = <<>> THEN g
    ELSE LET h == visit(g, Head(nodes))
         IN  IF Complete(h) THEN visitAll(h, Tail(nodes)) ELSE h

\* the operands evaluated right to left: the right operand is pushed
\* and popped into %rax, the left operand ends in %rbx
visitBinaryExpressionReversed(g, node) ==
    Emit(visit(Emit(visit(g, node.c[2]), <<Ins1("push", Reg("rax"))>>),
               node.c[1]),
         << Ins("mov", Reg("rax"), Reg("rbx")), Ins1("pop", Reg("rax")) >>
         \o BinaryOperation(node.v))

visitBinaryExpression(g, node) ==
    Emit(visit(Emit(visit(g, node.c[1]), <<Ins1("push", Reg("rax"))>>),
               node.c[2]),
         << Ins("mov", Reg("rax"), Reg("rbx")), Ins1("pop", Reg("rax")) >>
         \o BinaryOperation(node.v))

visitUnaryExpression(g, node) ==
    Emit(visit(g, node.c[1]), UnaryOperation(node.v))

\* for (i = 0; i < arguments.size() && i < 6; i++): argument i into its
\* register
RECURSIVE ArgumentsLoop(_, _, _)
ArgumentsLoop(g, arguments, i) ==
    IF i <= Len(arguments) /\ i <= Len(ArgumentRegisters)
    THEN LET h == Emit(visit(g, arguments[i]),
                       <<Ins("mov", Reg("rax"), Reg(ArgumentRegisters[i]))>>)
         IN  IF Complete(h) THEN ArgumentsLoop(h, arguments, i + 1) ELSE h
    ELSE g

visitFunctionCall(g, node) ==
    IF node.v = "print"
    THEN IF node.c # <<>>
         THEN Emit(visit(g, node.c[1]),
                   << Ins("mov", Reg("rax"), Reg("rdi")),
                      Ins1("call", Symbol("print")) >>)
         ELSE g
    ELSE IF node.v \in {"str", "int"}
    THEN IF node.c # <<>> THEN visit(g, node.c[1]) ELSE g
    ELSE Emit(ArgumentsLoop(g, node.c, 1), <<Ins1("call", Symbol(node.v))>>)

visitTupleExpression(g, node) ==
    IF node.c # <<>> THEN visit(g, node.c[1])
    ELSE Emit(g, <<Ins("mov", Imm(0), Reg("rax"))>>)

\* element i evaluated and stored in the temporary array
RECURSIVE ElementsLoop(_, _, _)
ElementsLoop(g, elements, i) ==
    IF i <= Len(elements)
    THEN LET h == Emit(visit(Emit(g, <<Ins1("push", Reg("r12"))>>), elements[i]),
                       << Ins1("pop", Reg("r12")),
                          Ins("movq", Reg("rax"), Mem("r12", (i - 1) * 8)) >>)
         IN  IF Complete(h) THEN ElementsLoop(h, elements, i + 1) ELSE h
    ELSE g

\* the list pointer saved across orion_free and never popped
visitListLiteralUnpopped(g, node) ==
    IF node.c = <<>>
    THEN Emit(g, << Ins("mov", Imm(4), Reg("rdi")),
                    Ins1("call", Symbol("list_new")) >>)
    ELSE Emit(ElementsLoop(
                  Emit(g, << Ins("mov", Imm(Len(node.c) * 8), Reg("rdi")),
                             Ins1("call", Symbol("orion_malloc")),
                             Ins("mov", Reg("rax"), Reg("r12")) >>),
                  node.c, 1),
              << Ins("mov", Reg("r12"), Reg("rdi")),
                 Ins("mov", Imm(Len(node.c)), Reg("rsi")),
                 Ins1("call", Symbol("list_from_data")),
                 Ins1("push", Reg("rax")),
                 Ins("mov", Reg("r12"), Reg("rdi")),
                 Ins1("call", Symbol("orion_free")) >>)

visitListLiteral(g, node) ==
    IF node.c = <<>>
    THEN Emit(g, << Ins("mov", Imm(4), Reg("rdi")),
                    Ins1("call", Symbol("list_new")) >>)
    ELSE Emit(ElementsLoop(
                  Emit(g, << Ins("mov", Imm(Len(node.c) * 8), Reg("rdi")),
                             Ins1("call", Symbol("orion_malloc")),
                             Ins("mov", Reg("rax"), Reg("r12")) >>),
                  node.c, 1),
              << Ins("mov", Reg("r12"), Reg("rdi")),
                 Ins("mov", Imm(Len(node.c)), Reg("rsi")),
                 Ins1("call", Symbol("list_from_data")),
                 Ins1("push", Reg("rax")),
                 Ins("mov", Reg("r12"), Reg("rdi")),
                 Ins1("call", Symbol("orion_free")),
                 Ins1("pop", Reg("rax")) >>)

\* pair i evaluated and stored with dict_set
RECURSIVE PairsLoop(_, _, _)
PairsLoop(g, pairs, i) ==
    IF i <= Len(pairs)
    THEN LET h == Emit(visit(
                      Emit(visit(Emit(g, <<Ins1("push", Reg("r12"))>>),
                                 pairs[i].c[1]),
                           << Ins("mov", Reg("rax"), Reg("r13")),
                              Ins1("pop", Reg("r12")),
                              Ins1("push", Reg("r12")),
                              Ins1("push", Reg("r13")) >>),
                      pairs[i].c[2]),
                  << Ins("mov", Reg("rax"), Reg("r14")),
                     Ins1("pop", Reg("r13")),
                     Ins1("pop", Reg("r12")),
                     Ins("mov", Reg("r12"), Reg("rdi")),
                     Ins("mov", Reg("r13"), Reg("rsi")),
                     Ins("mov", Reg("r14"), Reg("rdx")),
                     Ins1("call", Symbol("dict_set")) >>)
         IN  IF Complete(h) THEN PairsLoop(h, pairs, i + 1) ELSE h
    ELSE g

visitDictLiteral(g, node) ==
    Emit(PairsLoop(
             Emit(g, << Ins("mov",
                            Imm(IF Len(node.c) > 8 THEN Len(node.c) * 2 ELSE 8),
                            Reg("rdi")),
                        Ins1("call", Symbol("dict_new")),
                        Ins("mov", Reg("rax"), Reg("r12")) >>),
             node.c, 1),
         <<Ins("mov", Reg("r12"), Reg("rax"))>>)

visitIndexExpression(g, node) ==
    Emit(visit(Emit(visit(g, node.c[1]), <<Ins("mov", Reg("rax"), Reg("rdi"))>>),
               node.c[2]),
         << Ins("mov", Reg("rax"), Reg("rsi")), Ins1("call", Symbol("list_get")) >>)

\* currentStackOffset += 8; currentVariables[node.name] = varInfo
Declare(g, name, isParameter) ==
    SetVariable([g EXCEPT !.currentStackOffset = @ + 8], name, isParameter)

\* the store of the initializer into the slot just declared
StoreVariable(g) ==
    Emit(g, <<Ins("mov", Reg("rax"), Mem("rbp", -g.currentStackOffset))>>)

visitVariableDeclaration(g, node) ==
    IF node.c[2].k # "null"
    THEN StoreVariable(visit(Declare(g, node.v, FALSE), node.c[2]))
    ELSE Declare(g, node.v, FALSE)

\* mov callingRegs[i], -currentStackOffset(%rbp)
SpillParameter(g, i) ==
    Emit(g, <<Ins("mov", Reg(ArgumentRegisters[i]),
                  Mem("rbp", -g.currentStackOffset))>>)

\* for (i = 0; i < parameters.size() && i < 6; i++): parameter i spilled
\* from its register into the frame
RECURSIVE ParametersLoop(_, _, _)
ParametersLoop(g, parameters, i) ==
    IF i <= Len(parameters) /\ i <= Len(ArgumentRegisters)
    THEN LET h == SpillParameter(Declare(g, parameters[i].v, TRUE), i)
         IN  IF Complete(h) THEN ParametersLoop(h, parameters, i + 1) ELSE h
    ELSE g

\* pop %rbp; ret, or for main: mov %rax, %rdi; call exit
Epilogue(name) ==
    IF name = "main"
    THEN << Ins("mov", Reg("rax"), Reg("rdi")), Ins1("call", Symbol("exit")) >>
    ELSE << Ins1("pop", Reg("rbp")), Ins0("ret") >>

\* the prologue and the new function scope
EnterFunction(g, name) ==
    [Emit(g, << Define(Symbol(name)),
                Ins1("push", Reg("rbp")),
                Ins("mov", Reg("rsp"), Reg("rbp")) >>)
        EXCEPT !.currentFunction = name,
               !.currentVariables = {},
               !.currentStackOffset = 0]

\* the epilogue; currentFunction.clear()
LeaveFunction(g, name) ==
    [Emit(g, Epilogue(name)) EXCEPT !.currentFunction = ""]

\* the body is node.expression of a single-expression function and the
\* statements of node.body otherwise: the children of the body node
visitFunctionDeclaration(g, node) ==
    LeaveFunction(
        visitAll(ParametersLoop(EnterFunction(g, node.v), node.c[1].c, 1),
                 node.c[3].c),
        node.v)

visitBlockStatement(g, node) == visitAll(g, node.c)

visitExpressionStatement(g, node) == visit(g, node.c[1])

\* the return sequence of the function being generated
ReturnFrom(g) == Emit(g, Epilogue(g.currentFunction))

visitReturnStatement(g, node) ==
    IF node.c[1].k # "null"
    THEN ReturnFrom(visit(g, node.c[1]))
    ELSE ReturnFrom(Emit(g, <<Ins("mov", Imm(0), Reg("rax"))>>))

\* newLabel(prefix) twice: the generator after the two calls; the labels
\* are prefix1 + nextLabel and prefix2 + (nextLabel + 1)
newLabel(g) == [g EXCEPT !.nextLabel = @ + 1]

\* if (node.elseBranch) node.elseBranch->accept(*this)
visitOptional(g, node) == IF node.k # "null" THEN visit(g, node) ELSE g

\* the rest of visit(IfStatement) once the labels are allocated: n is the
\* number of the else label
IfBody(g, node, n) ==
    Emit(visitOptional(
             Emit(visit(
                      Emit(visit(g, node.c[1]),
                           << Ins("test", Reg("rax"), Reg("rax")),
                              Ins1("jz", Label("else", n)) >>),
                      node.c[2]),
                  << Ins1("jmp", Label("end_if", n + 1)),
                     Define(Label("else", n)) >>),
             node.c[3]),
         <<Define(Label("end_if", n + 1))>>)

visitIfStatement(g, node) == IfBody(newLabel(newLabel(g)), node, g.nextLabel)

\* the rest of visit(WhileStatement): n is the number of the loop label
WhileBody(g, node, n) ==
    Emit(visit(
             Emit(visit(Emit(g, <<Define(Label("loop", n))>>), node.c[1]),
                  << Ins("test", Reg("rax"), Reg("rax")),
                     Ins1("jz", Label("end_loop", n + 1)) >>),
             node.c[2]),
         << Ins1("jmp", Label("loop", n)),
            Define(Label("end_loop", n + 1)) >>)

visitWhileStatement(g, node) ==
    WhileBody(newLabel(newLabel(g)), node, g.nextLabel)

\* node.accept(*this)
visit(g, node) ==
    CASE node.k = "IntLiteral" -> visitIntLiteral(g, node)
      [] node.k = "FloatLiteral" -> visitFloatLiteral(g, node)
      [] node.k = "StringLiteral" -> visitStringLiteral(g, node)
      [] node.k = "BoolLiteral" -> visitBoolLiteral(g, node)
      [] node.k = "Identifier" -> visitIdentifier(g, node)
      [] node.k = "BinaryExpression" -> visitBinaryExpression(g, node)
      [] node.k = "UnaryExpression" -> visitUnaryExpression(g, node)
      [] node.k = "FunctionCall" -> visitFunctionCall(g, node)
      [] node.k = "TupleExpression" -> visitTupleExpression(g, node)
      [] node.k = "ListLiteral" -> visitListLiteral(g, node)
      [] node.k = "DictLiteral" -> visitDictLiteral(g, node)
      [] node.k = "IndexExpression" -> visitIndexExpression(g, node)
      [] node.k = "VariableDeclaration" -> visitVariableDeclaration(g, node)
      [] node.k = "FunctionDeclaration" -> visitFunctionDeclaration(g, node)
      [] node.k = "BlockStatement" -> visitBlockStatement(g, node)
      [] node.k = "ExpressionStatement" -> visitExpressionStatement(g, node)
      [] node.k = "ReturnStatement" -> visitReturnStatement(g, node)
      [] node.k = "IfStatement" -> visitIfStatement(g, node)
      [] node.k = "WhileStatement" -> visitWhileStatement(g, node)
      \* struct and enum declarations emit a comment only
      [] OTHER -> g

\* the statements of the program that are not function declarations
TopLevelStatements(statements) ==
    SelectSeq(statements, LAMBDA s : s.k # "FunctionDeclaration")

visitProgram(g, statements) ==
    visitAll(
        Emit(visitAll(Emit(g, <<Define(Symbol("_start"))>>),
                      TopLevelStatements(statements)),
             <<Ins1("call", Symbol("exit"))>>),
        statements)

\* CodeGenerator::generate: the text of one emission
generate(statements) ==
    generateRuntimeSupport(visitProgram(NewGenerator, statements)).output

---------------------------------------------------------------------------
(* Assembly and execution of the output.                                   *)

\* the positions at which the code defines the label
Definitions(code, label) == {i \in 1..Len(code) : code[i] = Define(label)}

\* the labels the code defines
DefinedLabels(code) == {code[i].dst : i \in {j \in 1..Len(code) : code[j].op = "label"}}

\* the assembler accepts the code: no symbol is defined twice
Assembles(code) ==
    \A l \in DefinedLabels(code) : Cardinality(Definitions(code, l)) = 1

\* the position of a label the code defines
Target(code, label) == CHOOSE i \in Definitions(code, label) : TRUE

\* bitwise operations on the W-bit patterns x and y, n bits at a time
RECURSIVE AndBits(_, _, _)
AndBits(x, y, n) ==
    IF n = 0 THEN 0
    ELSE 2 * AndBits(x \div 2, y \div 2, n - 1)
         + (IF x % 2 = 1 /\ y % 2 = 1 THEN 1 ELSE 0)
RECURSIVE OrBits(_, _, _)
OrBits(x, y, n) ==
    IF n = 0 THEN 0
    ELSE 2 * OrBits(x \div 2, y \div 2, n - 1)
         + (IF x % 2 = 1 \/ y % 2 = 1 THEN 1 ELSE 0)
BitAnd(x, y) == Wrap(AndBits(ToUnsigned(x), ToUnsigned(y), W))
BitOr(x, y) == Wrap(OrBits(ToUnsigned(x), ToUnsigned(y), W))

\* %al is the low byte of %rax
LowByte(x) == ToUnsigned(x) % 256
WithLowByte(x, byte) == Wrap(ToUnsigned(x) - LowByte(x) + byte)

\* the address a memory operand names
Address(c, o) == c.reg[o.r] + o.n
\* the operand cannot be accessed
Unmapped(c, o) == o.m = "mem" /\ Address(c, o) \notin Mapped

\* the value of an operand; the address of a data symbol is opaque
Read(c, o) ==
    CASE o.m = "imm" -> Wrap(o.n)
      [] o.m = "reg" -> c.reg[o.r]
      [] o.m = "mem" -> c.memory[Address(c, o)]
      [] OTHER -> 0

Write(c, o, v) ==
    IF o.m = "mem" THEN [c EXCEPT !.memory[Address(c, o)] = v]
    ELSE [c EXCEPT !.reg[o.r] = v]

Advance(c) == [c EXCEPT !.pc = @ + 1, !.via = "next"]
Fault(c) == [c EXCEPT !.status = "fault"]
Flags(c, v) == [c EXCEPT !.zf = (v = 0), !.lt = (v < 0)]

\* the result of a two-operand arithmetic instruction op src, dst
Arithmetic(op, src, dst) ==
    CASE op = "add" -> Wrap(dst + src)
      [] op = "sub" -> Wrap(dst - src)
      [] op = "imul" -> Wrap(dst * src)
      [] op = "and" -> BitAnd(dst, src)
      [] op = "or" -> BitOr(dst, src)
      [] op = "xor" -> Wrap(dst + src - 2 * BitAnd(dst, src))

\* the condition a setCC instruction stores
Condition(c, op) ==
    CASE op \in {"sete", "setz"} -> c.zf
      [] op = "setne" -> ~c.zf
      [] op = "setl" -> c.lt
      [] op = "setle" -> c.lt \/ c.zf
      [] op = "setg" -> ~c.lt /\ ~c.zf
      [] op = "setge" -> ~c.lt

\* idiv: %rdx:%rax, a signed number of 2W bits, divided by the operand
Dividend(c) == c.reg["rdx"] * SIZE_MOD + ToUnsigned(c.reg["rax"])

Divide(c, divisor) ==
    IF divisor = 0 THEN Fault(c)
    ELSE IF CDiv(Dividend(c), divisor) \notin INT_MIN..INT_MAX THEN Fault(c)
    ELSE Advance([c EXCEPT
             !.reg["rax"] = CDiv(Dividend(c), divisor),
             !.reg["rdx"] = Dividend(c) - CDiv(Dividend(c), divisor) * divisor])

Push(c, v) ==
    IF c.reg["rsp"] - WordBytes \notin Mapped THEN Fault(c)
    ELSE [c EXCEPT !.reg["rsp"] = @ - WordBytes,
                   !.memory[c.reg["rsp"] - WordBytes] = v,
                   !.pushed = Append(@, v)]

\* the history of the word at (%rsp) being taken off the stack
Popped(c) ==
    [c EXCEPT !.pushed = IF @ = <<>> THEN @ ELSE SubSeq(@, 1, Len(@) - 1),
              !.unmatched = IF c.pushed = <<>> THEN TRUE
                            ELSE @ \/ c.pushed[Len(c.pushed)] # c.memory[c.reg["rsp"]]]

\* what a function of the C runtime returns in %rax: the allocator a
\* block of the heap, every other function 0; the other registers are
\* left as they were
ExternalResult(name) ==
    IF name \in {"orion_malloc", "list_new", "list_from_data", "dict_new"}
    THEN HeapBase ELSE 0

\* call label
CallTo(c, code, label) ==
    IF Definitions(code, label) = {}
    THEN Advance([c EXCEPT !.reg["rax"] = ExternalResult(label.r)])
    ELSE IF c.reg["rsp"] - WordBytes \notin Mapped THEN Fault(c)
    ELSE [Push(c, CodeBase + c.pc + 1) EXCEPT
             !.pc = Target(code, label),
             !.via = "call",
             !.calls = Append(@, c.reg["rsp"])]

\* ret
Return(c, code) ==
    IF c.reg["rsp"] \notin Mapped THEN Fault(c)
    ELSE IF c.memory[c.reg["rsp"]] - CodeBase \notin 1..Len(code) THEN Fault(c)
    ELSE [Popped(c) EXCEPT !.pc = c.memory[c.reg["rsp"]] - CodeBase,
                   !.reg["rsp"] = @ + WordBytes,
                   !.via = "ret",
                   !.calls = IF @ = <<>> THEN @ ELSE SubSeq(@, 1, Len(@) - 1)]

\* jmp, jz, jnz
Jump(c, code, taken, label) ==
    IF ~taken THEN Advance(c)
    ELSE IF Definitions(code, label) = {} THEN Fault(c)
    ELSE [c EXCEPT !.pc = Target(code, label), !.via = "jump"]

\* syscall: 60 is exit, which ends the process
Syscall(c) == IF c.reg["rax"] = 60 THEN [c EXCEPT !.status = "exited"] ELSE Advance(c)

\* one instruction executed
Exec(c, code, ins) ==
    IF Unmapped(c, ins.src) \/ Unmapped(c, ins.dst) THEN Fault(c)
    ELSE CASE ins.op = "label" -> Advance(c)
      [] ins.op \in {"mov", "movq"} -> Advance(Write(c, ins.dst, Read(c, ins.src)))
      [] ins.op = "movzx" -> Advance(Write(c, ins.dst, LowByte(c.reg["rax"])))
      [] ins.op = "push" -> IF Push(c, 0).status = "fault" THEN Fault(c)
                            ELSE Advance(Push(c, Read(c, ins.dst)))
      [] ins.op = "pop" ->
            IF c.reg["rsp"] \notin Mapped THEN Fault(c)
            ELSE Advance([Write(Popped(c), ins.dst, c.memory[c.reg["rsp"]])
                             EXCEPT !.reg["rsp"] = c.reg["rsp"] + WordBytes])
      [] ins.op \in {"add", "sub", "imul", "and", "or", "xor"} ->
            Advance(Flags(Write([c EXCEPT !.imuls = IF ins.op = "imul" THEN @ + 1 ELSE @],
                                ins.dst,
                                Arithmetic(ins.op, Read(c, ins.src), Read(c, ins.dst))),
                          Arithmetic(ins.op, Read(c, ins.src), Read(c, ins.dst))))
      [] ins.op = "neg" ->
            Advance(Flags(Write(c, ins.dst, Wrap(-Read(c, ins.dst))),
                          Wrap(-Read(c, ins.dst))))
      [] ins.op = "dec" ->
            Advance(Flags(Write(c, ins.dst, Wrap(Read(c, ins.dst) - 1)),
                          Wrap(Read(c, ins.dst) - 1)))
      [] ins.op = "idiv" -> Divide(c, Read(c, ins.dst))
      [] ins.op = "cmp" ->
            Advance([c EXCEPT !.zf = (Read(c, ins.dst) = Read(c, ins.src)),
                              !.lt = (Read(c, ins.dst) < Read(c, ins.src))])
      [] ins.op = "test" ->
            Advance(Flags(c, BitAnd(Read(c, ins.dst), Read(c, ins.src))))
      [] ins.op \in {"sete", "setz", "setne", "setl", "setle", "setg", "setge"} ->
            Advance([c EXCEPT !.reg["rax"] =
                        WithLowByte(@, IF Condition(c, ins.op) THEN 1 ELSE 0)])
      [] ins.op = "jmp" -> Jump(c, code, TRUE, ins.dst)
      [] ins.op = "jz" -> Jump(c, code, c.zf, ins.dst)
      [] ins.op = "jnz" -> Jump(c, code, ~c.zf, ins.dst)
      [] ins.op = "call" -> CallTo(c, code, ins.dst)
      [] ins.op = "ret" -> Return(c, code)
      [] ins.op = "syscall" -> Syscall(c)

\* what a word of memory holds before the program writes it
Junk == {0, 5}

\* the process at its entry point: %rsp is 16-byte aligned and the memory
\* holds junk
Entry(code, junk) ==
    [PoweredOff EXCEPT !.status = "running",
                       !.pc = Target(code, Symbol("_start")),
                       !.reg["rsp"] = StackTop,
                       !.memory = [a \in Mapped |-> junk],
                       !.via = "start"]

\* CodeGenerator::generate(program)
Generate ==
    /\ source # NoSource
    /\ cpu.status = "off"
    /\ output = <<>>
    /\ output' = generate(source.ast)
    /\ UNCHANGED <<source, cpu, backendVars, commonVars, listVars, dictVars,
                   rangeVars, parserVars>>

\* the output assembled and loaded, or rejected by the assembler
Assemble ==
    /\ cpu.status = "off"
    /\ output # <<>>
    /\ \E junk \in Junk :
          cpu' = IF Assembles(output) THEN Entry(output, junk)
                 ELSE [PoweredOff EXCEPT !.status = "rejected"]
    /\ UNCHANGED <<source, output, backendVars, commonVars, listVars,
                   dictVars, rangeVars, parserVars>>

\* the instruction at the program counter executed
Execute ==
    /\ cpu.status = "running"
    /\ cpu.pc \in 1..Len(output)
    /\ cpu' = Exec(cpu, output, output[cpu.pc])
    /\ UNCHANGED <<source, output, backendVars, commonVars, listVars,
                   dictVars, rangeVars, parserVars>>

NextCompiler == Generate \/ Assemble \/ Execute

---------------------------------------------------------------------------
(* The programs compiled and run.  Each is the statement list of a         *)
(* Program with the family it belongs to and, for the families about one   *)
(* operator, the operator and its operand values.                          *)

Compiled(form, ast) == [form |-> form, ast |-> ast, op |-> "", a |-> 0, b |-> 0]
Applied(form, ast, op, a, b) == [form |-> form, ast |-> ast, op |-> op, a |-> a, b |-> b]

Parameter(name) == Node("Parameter", name, 0, <<Type("UNKNOWN", "")>>)
ReturnStatement(value) == Node("ReturnStatement", "", 0, <<value>>)
WhileStatement(condition, body) == Node("WhileStatement", "", 0, <<condition, body>>)
ListLiteral(elements) == Node("ListLiteral", "", 0, elements)
DictLiteral(pairs) == Node("DictLiteral", "", 0, pairs)
Pair(key, value) == Node("pair", "", 0, <<key, value>>)
\* fn name(parameters) { body }
Function(name, parameters, body) ==
    FunctionDeclaration(name, parameters, Type("VOID", ""), FALSE, body)
CallStatement(name, arguments) == ExpressionStatement(FunctionCall(name, arguments))

\* operand values: the extremes, small values of both signs, and zero
Values == {INT_MIN, INT_MIN + 1, -7, -2, -1, 0, 1, 2, 7, INT_MAX}

\* statements that need labels
LabelStatements ==
    { IfStatement(IntLiteral(1), BlockStatement(<<ExpressionStatement(IntLiteral(2))>>), Nil),
      IfStatement(IntLiteral(0), BlockStatement(<<ExpressionStatement(IntLiteral(2))>>),
                  BlockStatement(<<ExpressionStatement(IntLiteral(3))>>)),
      WhileStatement(IntLiteral(0), BlockStatement(<<ExpressionStatement(IntLiteral(2))>>)),
      ExpressionStatement(BinaryExpression(IntLiteral(2), "POWER", IntLiteral(3))),
      ExpressionStatement(BinaryExpression(IntLiteral(2), "POWER", IntLiteral(0))),
      ExpressionStatement(BinaryExpression(IntLiteral(2), "ADD", IntLiteral(3))) }

\* one or two such statements in the body of a function that is called
LabelPrograms ==
    { Compiled("labels", <<Function("f", <<>>, <<s>>), CallStatement("f", <<>>)>>)
      : s \in LabelStatements }
    \cup { Compiled("labels", <<Function("f", <<>>, <<s, t>>), CallStatement("f", <<>>)>>)
           : s \in LabelStatements, t \in LabelStatements }
    \cup { Compiled("labels", <<s>>) : s \in LabelStatements }

\* expressions that call: alone, as an operand, as an element, as a key
\* or a value
CallingExpressions ==
    { FunctionCall("g", <<>>),
      FunctionCall("g", <<FunctionCall("g", <<>>)>>),
      BinaryExpression(FunctionCall("g", <<>>), "ADD", IntLiteral(1)),
      BinaryExpression(IntLiteral(1), "ADD", FunctionCall("g", <<>>)),
      BinaryExpression(IntLiteral(1), "ADD",
          BinaryExpression(IntLiteral(1), "ADD", FunctionCall("g", <<>>))),
      UnaryExpression("MINUS", FunctionCall("g", <<>>)),
      ListLiteral(<<>>),
      ListLiteral(<<IntLiteral(1)>>),
      ListLiteral(<<FunctionCall("g", <<>>)>>),
      DictLiteral(<<>>),
      DictLiteral(<<Pair(FunctionCall("g", <<>>), IntLiteral(1))>>),
      DictLiteral(<<Pair(IntLiteral(1), FunctionCall("g", <<>>))>>),
      Node("IndexExpression", "", 0, <<ListLiteral(<<>>), IntLiteral(0)>>),
      FunctionCall("print", <<IntLiteral(1)>>) }

CallingStatements ==
    { ExpressionStatement(e) : e \in CallingExpressions }
    \cup { ReturnStatement(e) : e \in CallingExpressions }
    \cup { VariableDeclaration("x", Type("UNKNOWN", ""), e, FALSE)
           : e \in CallingExpressions }

\* f, whose body calls, is called from the top level
AlignPrograms ==
    { Compiled("align",
               << Function("g", <<>>, <<ReturnStatement(IntLiteral(1))>>),
                  Function("f", <<>>, <<s>>),
                  CallStatement("f", <<>>) >>)
      : s \in CallingStatements }

Quotient(op, a, b) == ExpressionStatement(BinaryExpression(IntLiteral(a), op, IntLiteral(b)))

\* a / b, a // b, a % b with b # 0 and not INT_MIN / -1
DividePrograms ==
    { Applied("divide", <<Quotient(t[1], t[2], t[3])>>, t[1], t[2], t[3])
      : t \in { u \in {"DIV", "FLOOR_DIV", "MOD"} \X Values \X Values
                : u[3] # 0 /\ ~(u[2] = INT_MIN /\ u[3] = -1) } }

\* a and b, a or b, not a
LogicPrograms ==
    { Applied("logic", <<Quotient(op, a, b)>>, op, a, b)
      : op \in {"AND", "OR"}, a \in Values, b \in Values }
    \cup { Applied("logic",
                   <<ExpressionStatement(UnaryExpression("NOT", IntLiteral(a)))>>,
                   "NOT", a, 0)
           : a \in Values }

MaxArguments == 8
ParameterNames == <<"p1", "p2", "p3", "p4", "p5", "p6", "p7", "p8", "p9">>

\* argument i has the value i: written as the literal i, or the last
\* argument as the quotient 2i / 2
ArgumentsOf(n, quotient) ==
    [i \in 1..n |-> IF quotient /\ i = n
                    THEN BinaryExpression(IntLiteral(2 * i), "DIV", IntLiteral(2))
                    ELSE IntLiteral(i)]

\* f(1, ..., n) and f with n parameters
ArgumentPrograms ==
    { Applied("arguments",
              << Function("f", [i \in 1..n |-> Parameter(ParameterNames[i])],
                          <<ReturnStatement(IF n = 0 THEN IntLiteral(0)
                                            ELSE Identifier(ParameterNames[n]))>>),
                 CallStatement("f", ArgumentsOf(n, q)) >>,
              IF q THEN "quotient" ELSE "literal", n, 0)
      : n \in 0..MaxArguments, q \in BOOLEAN }

\* functions at the top level, called or not, and functions declared in
\* the body of a function or of a top-level block
NestedPrograms ==
    { Compiled("nested", ast) : ast \in
        { << Function("f", <<>>, <<ReturnStatement(IntLiteral(1))>>) >>,
          << Function("f", <<>>, <<ReturnStatement(IntLiteral(1))>>),
             CallStatement("f", <<>>) >>,
          << ExpressionStatement(IntLiteral(5)),
             Function("f", <<>>, <<ExpressionStatement(IntLiteral(1))>>),
             CallStatement("f", <<>>),
             Function("h", <<>>, <<ReturnStatement(IntLiteral(2))>>),
             CallStatement("h", <<>>) >>,
          << Function("main", <<>>, <<ReturnStatement(IntLiteral(0))>>),
             CallStatement("main", <<>>) >>,
          << Function("main", <<>>, <<ExpressionStatement(IntLiteral(0))>>),
             CallStatement("main", <<>>) >>,
          << Function("outer", <<>>,
                      << Function("inner", <<>>, <<ReturnStatement(IntLiteral(2))>>),
                         ReturnStatement(FunctionCall("inner", <<>>)) >>),
             CallStatement("outer", <<>>) >>,
          << Function("outer", <<>>,
                      << VariableDeclaration("x", Type("UNKNOWN", ""), IntLiteral(1), FALSE),
                         Function("inner", <<>>, <<ExpressionStatement(IntLiteral(2))>>),
                         ReturnStatement(Identifier("x")) >>),
             CallStatement("outer", <<>>) >>,
          << IfStatement(IntLiteral(1),
                         BlockStatement(<<Function("h", <<>>, <<ReturnStatement(IntLiteral(1))>>)>>),
                         Nil) >> } }

---------------------------------------------------------------------------
(* More programs: frames, assignments, argument lists, powers and          *)
(* expression trees.                                                       *)

\* the first n parameters
ParametersOf(n) == [i \in 1..n |-> Parameter(ParameterNames[i])]
\* the literals 1, ..., n
LiteralsTo(n) == [i \in 1..n |-> IntLiteral(i)]
Assignment(name, value) == VariableDeclaration(name, Type("UNKNOWN", ""), value, FALSE)
\* fn g(p1) { return p1 }
Identity == Function("g", ParametersOf(1), <<ReturnStatement(Identifier("p1"))>>)

\* f(arguments) for a function f that reads its parameters and locals;
\* a is the value the language gives the call
FramePrograms ==
    { Applied("frame", <<Identity, Function("f", ParametersOf(t[1]), t[2]),
                         CallStatement("f", t[3])>>, "", t[4], 0)
      : t \in
        { <<1, <<ReturnStatement(Identifier("p1"))>>, <<IntLiteral(5)>>, 5>>,
          <<1, <<ReturnStatement(BinaryExpression(IntLiteral(1), "ADD", Identifier("p1")))>>,
               <<IntLiteral(5)>>, 6>>,
          <<2, <<ReturnStatement(BinaryExpression(Identifier("p1"), "ADD", Identifier("p2")))>>,
               <<IntLiteral(3), IntLiteral(4)>>, 7>>,
          <<2, <<ReturnStatement(BinaryExpression(Identifier("p2"), "SUB", Identifier("p1")))>>,
               <<IntLiteral(3), IntLiteral(4)>>, 1>>,
          <<1, <<Assignment("x", FunctionCall("g", <<IntLiteral(2)>>)),
                 ReturnStatement(Identifier("p1"))>>, <<IntLiteral(5)>>, 5>>,
          <<0, <<Assignment("x", IntLiteral(5)),
                 Assignment("y", BinaryExpression(IntLiteral(1), "ADD", IntLiteral(2))),
                 ReturnStatement(Identifier("x"))>>, <<>>, 5>> } }

\* f() for a function f that assigns twice; a is the value returned
AssignPrograms ==
    { Applied("assign", <<Function("f", <<>>, t[1]), CallStatement("f", <<>>)>>,
              t[2], t[3], 0)
      : t \in
        { << <<Assignment("x", IntLiteral(5)),
               Assignment("x", BinaryExpression(Identifier("x"), "ADD", IntLiteral(1))),
               ReturnStatement(Identifier("x"))>>, "compound", 6 >>,
          << <<Assignment("x", IntLiteral(5)),
               Assignment("y", BinaryExpression(Identifier("x"), "ADD", IntLiteral(1))),
               ReturnStatement(Identifier("y"))>>, "other", 6 >>,
          << <<Assignment("x", IntLiteral(5)),
               Assignment("x", IntLiteral(7)),
               ReturnStatement(Identifier("x"))>>, "literal", 7 >> } }

\* the last argument of a call with n arguments, of value n unless it is
\* a literal collection
LastArgument(kind, n) ==
    CASE kind = "literal" -> IntLiteral(n)
      [] kind = "quotient" -> BinaryExpression(IntLiteral(2 * n), "DIV", IntLiteral(2))
      [] kind = "remainder" -> BinaryExpression(IntLiteral(n), "MOD", IntLiteral(n + 1))
      [] kind = "sum" -> BinaryExpression(IntLiteral(n - 1), "ADD", IntLiteral(1))
      [] kind = "power" -> BinaryExpression(IntLiteral(n), "POWER", IntLiteral(1))
      [] kind = "call" -> FunctionCall("g", <<IntLiteral(n)>>)
      [] kind = "list" -> ListLiteral(<<IntLiteral(n)>>)
      [] kind = "dict" -> DictLiteral(<<Pair(IntLiteral(n), IntLiteral(n))>>)

ArgumentKinds ==
    {"literal", "quotient", "remainder", "sum", "power", "call", "list", "dict"}

\* f(1, ..., n - 1, e) with at most as many arguments as registers
PreservePrograms ==
    { Applied("preserve",
              << Identity,
                 Function("f", ParametersOf(n), <<ReturnStatement(IntLiteral(0))>>),
                 CallStatement("f", Append(LiteralsTo(n - 1), LastArgument(kind, n))) >>,
              kind, n, 0)
      : n \in 2..Len(ArgumentRegisters), kind \in ArgumentKinds }

Bases == {-2, -1, 0, 1, 2, 3, 7}
MaxExponent == 3
Exponents == (0..MaxExponent) \cup {-1, -2, INT_MIN}

\* f(1, 2, 3, 4) for fn f(p1, p2, p3, p4) { return b ** e }
PowerPrograms ==
    { Applied("power",
              << Function("f", ParametersOf(4),
                     <<ReturnStatement(BinaryExpression(IntLiteral(b), "POWER", IntLiteral(e)))>>),
                 CallStatement("f", LiteralsTo(4)) >>,
              "POWER", b, e)
      : b \in Bases, e \in Exponents }

Sum(left, right) == BinaryExpression(left, "ADD", right)
Product(left, right) == BinaryExpression(left, "MUL", right)

\* expression trees: operators nested on either side, a power, calls,
\* list and dict literals
ExpressionTrees ==
    { Sum(IntLiteral(1), Product(IntLiteral(2), IntLiteral(3))),
      Product(Sum(IntLiteral(1), IntLiteral(2)), IntLiteral(3)),
      Sum(Sum(IntLiteral(1), IntLiteral(2)), Sum(IntLiteral(3), IntLiteral(4))),
      UnaryExpression("MINUS", Sum(IntLiteral(1), IntLiteral(2))),
      UnaryExpression("NOT", BinaryExpression(IntLiteral(1), "LT", IntLiteral(2))),
      BinaryExpression(IntLiteral(7), "DIV", Sum(IntLiteral(1), IntLiteral(1))),
      BinaryExpression(IntLiteral(2), "POWER", IntLiteral(3)),
      BinaryExpression(IntLiteral(2), "POWER", IntLiteral(0)),
      Sum(IntLiteral(1), BinaryExpression(IntLiteral(2), "POWER", Sum(IntLiteral(1), IntLiteral(1)))),
      FunctionCall("g", <<Sum(IntLiteral(1), IntLiteral(2))>>),
      Sum(IntLiteral(1), FunctionCall("g", <<IntLiteral(2)>>)),
      Sum(FunctionCall("g", <<IntLiteral(1)>>), FunctionCall("g", <<IntLiteral(2)>>)),
      FunctionCall("g", <<FunctionCall("g", <<IntLiteral(2)>>)>>),
      ListLiteral(<<>>),
      ListLiteral(<<IntLiteral(1), Sum(IntLiteral(2), IntLiteral(3))>>),
      ListLiteral(<<FunctionCall("g", <<IntLiteral(1)>>)>>),
      ListLiteral(<<ListLiteral(<<IntLiteral(1)>>)>>),
      DictLiteral(<<Pair(IntLiteral(1), Sum(IntLiteral(2), IntLiteral(3)))>>),
      DictLiteral(<<Pair(FunctionCall("g", <<IntLiteral(1)>>), IntLiteral(2)),
                    Pair(IntLiteral(3), FunctionCall("g", <<IntLiteral(4)>>))>>),
      Sum(IntLiteral(1), ListLiteral(<<IntLiteral(2)>>)),
      Node("IndexExpression", "", 0,
           <<ListLiteral(<<IntLiteral(1)>>), Sum(IntLiteral(0), IntLiteral(0))>>) }

\* f() for fn f() { e }
NeutralPrograms ==
    { Compiled("neutral",
               << Identity,
                  Function("f", <<>>, <<ExpressionStatement(e)>>),
                  CallStatement("f", <<>>) >>)
      : e \in ExpressionTrees }

CompilerInputs ==
    LabelPrograms \cup AlignPrograms \cup DividePrograms \cup LogicPrograms
    \cup ArgumentPrograms \cup NestedPrograms
    \cup FramePrograms \cup AssignPrograms \cup PreservePrograms
    \cup PowerPrograms \cup NeutralPrograms

InitCompiler ==
    /\ InitRuntime
    /\ InitParserIdle
    /\ source \in CompilerInputs
    /\ output = <<>>
    /\ cpu = PoweredOff
    /\ InitBackendIdle

SpecCompiler == InitCompiler /\ [][NextCompiler]_vars

---------------------------------------------------------------------------
(* Claims about the code generator *)

\* the machine is about to execute an instruction
Fetching == cpu.status = "running" /\ cpu.pc \in 1..Len(output)
\* the machine is about to execute `call name`
AtCallOf(name) == Fetching /\ output[cpu.pc] = Ins1("call", Symbol(name))
\* the top-level statement has been evaluated: the machine is at the
\* `call exit` that follows the top-level code
Evaluated == AtCallOf("exit") /\ cpu.calls = <<>>

\* C15: in the assembly one generate() call emits for a program, every
\* label is defined at most once, whatever the program contains (several
\* if and while statements, several ** expressions).
C15_LabelsUnique == output # <<>> => Assembles(output)

\* f() { 2 ** 3; 2 ** 0 }: .power_loop is defined twice and the
\* assembler rejects the output
C15_PowerLoopTwice ==
    /\ source.ast =
         << Function("f", <<>>,
               << ExpressionStatement(BinaryExpression(IntLiteral(2), "POWER", IntLiteral(3))),
                  ExpressionStatement(BinaryExpression(IntLiteral(2), "POWER", IntLiteral(0))) >>),
            CallStatement("f", <<>>) >>
    /\ Cardinality(Definitions(output, Symbol(".power_loop"))) = 2
    /\ Cardinality(Definitions(output, Symbol(".power_done"))) = 2
    /\ cpu.status = "rejected"

\* the function being executed was entered by a call made with %rsp a
\* multiple of 16
EnteredAligned == cpu.calls # <<>> /\ cpu.calls[Len(cpu.calls)] % 16 = 0

\* C16: in a function entered by a call made with a 16-byte-aligned stack
\* pointer, the stack pointer is 0 mod 16 at every call instruction of the
\* body, also at the calls made while the right operand of a binary
\* expression or an element of a list or dict literal is evaluated.
C16_CallsAligned ==
    (source.form = "align" /\ Fetching /\ output[cpu.pc].op = "call"
     /\ EnteredAligned)
    => cpu.reg["rsp"] % 16 = 0

\* f() { 1 + g() }: g is called with the left operand pushed
C16_RightOperandCall ==
    /\ source.form = "align"
    /\ source.ast[2] =
         Function("f", <<>>,
            <<ExpressionStatement(
                BinaryExpression(IntLiteral(1), "ADD", FunctionCall("g", <<>>)))>>)
    /\ AtCallOf("g")
    /\ cpu.calls = <<StackTop>>
    /\ cpu.reg["rsp"] % 16 = 8

\* the value of a op b in the language
ValueOf(op, a, b) == IF op = "MOD" THEN a - CDiv(a, b) * b ELSE CDiv(a, b)

\* C17: for all signed a and b with b # 0 (and not a = INT_MIN, b = -1)
\* the code emitted for a / b and a // b leaves the signed truncated
\* quotient in %rax and the code for a % b the signed remainder, for
\* negative a as well.
C17_SignedDivision ==
    source.form = "divide"
    => /\ cpu.status # "fault"
       /\ Evaluated => cpu.reg["rax"] = ValueOf(source.op, source.a, source.b)

\* -7 / 2 is computed from the zero-extended dividend
C17_NegativeDividend ==
    /\ source.form = "divide" /\ source.op = "DIV"
    /\ source.a = -7 /\ source.b = 2
    /\ Evaluated
    /\ cpu.reg["rax"] = (SIZE_MOD - 7) \div 2
    /\ cpu.reg["rax"] # -3

\* C18: at the call instruction of a call with n arguments the first
\* min(n, R) arguments are in the R argument registers in order and the
\* other n - R are on the stack, pushed right to left: none is dropped.
C18_ArgumentsPassed ==
    (source.form = "arguments" /\ AtCallOf("f"))
    => /\ \A i \in 1..Min(source.a, Len(ArgumentRegisters)) :
             cpu.reg[ArgumentRegisters[i]] = i
       /\ \A i \in (Len(ArgumentRegisters) + 1)..source.a :
             LET slot == cpu.reg["rsp"] + WordBytes * (i - Len(ArgumentRegisters) - 1)
             IN  slot \in Mapped /\ cpu.memory[slot] = i

\* f(1, ..., 7): the seventh argument is not evaluated and not pushed
C18_SeventhDropped ==
    /\ source.form = "arguments" /\ source.a = 7 /\ source.op = "literal"
    /\ AtCallOf("f")
    /\ cpu.reg["rsp"] = StackTop
    /\ \A i \in 1..Len(output) : output[i].src # Imm(7)
    /\ \A i \in 1..cpu.pc : output[i].op # "push"

\* the names of the functions declared in a node, at any depth
RECURSIVE FunctionsOf(_)
FunctionsOf(node) ==
    (IF node.k = "FunctionDeclaration" THEN {node.v} ELSE {})
    \cup UNION {FunctionsOf(node.c[i]) : i \in 1..Len(node.c)}
DeclaredFunctions(statements) ==
    UNION {FunctionsOf(statements[i]) : i \in 1..Len(statements)}

\* C19: execution from the entry point reaches the first instruction of a
\* function only by a call to that function, never by falling through,
\* for top-level functions and for functions declared in a function body.
C19_OnlyByCall ==
    (Fetching /\ output[cpu.pc].op = "label"
     /\ output[cpu.pc].dst.m = "sym"
     /\ output[cpu.pc].dst.r \in DeclaredFunctions(source.ast))
    => cpu.via = "call"

\* outer() { fn inner() { return 2 }; return inner() }: the call of outer
\* runs into inner
C19_FallsIntoInner ==
    /\ source.form = "nested"
    /\ Fetching
    /\ output[cpu.pc] = Define(Symbol("inner"))
    /\ cpu.via = "next"
    /\ cpu.calls = <<StackTop>>

\* C20: the code for a and b leaves a non-zero value in %rax exactly when
\* a # 0 and b # 0, the code for a or b exactly when a # 0 or b # 0, and
\* the code for not a leaves 1 when a = 0 and 0 otherwise.
C20_Coerced ==
    (source.form = "logic" /\ Evaluated)
    => CASE source.op = "AND" ->
              (cpu.reg["rax"] # 0) = (source.a # 0 /\ source.b # 0)
         [] source.op = "OR" ->
              (cpu.reg["rax"] # 0) = (source.a # 0 \/ source.b # 0)
         [] source.op = "NOT" ->
              cpu.reg["rax"] = (IF source.a = 0 THEN 1 ELSE 0)

\* 1 and 2 is 0: the bits of the operands are and-ed
C20_BitwiseAnd ==
    /\ source.form = "logic" /\ source.op = "AND"
    /\ source.a = 1 /\ source.b = 2
    /\ Evaluated
    /\ cpu.reg["rax"] = 0


---------------------------------------------------------------------------
(* Frames, assignments and argument registers of the generated code.       *)

\* the operands of the instruction being fetched that name a slot of the
\* frame: -8k(%rbp)
SlotOperands ==
    { o \in {output[cpu.pc].src, output[cpu.pc].dst}
      : o.m = "mem" /\ o.r = "rbp" /\ o.n < 0 }
\* the machine is about to return from the function the top level called
Returning == Fetching /\ output[cpu.pc].op = "ret" /\ Len(cpu.calls) = 1

\* C21: the prologue of every function reserves the frame before any slot
\* is used: whenever the body reads or writes a slot -8k(%rbp), the slot
\* lies at or above %rsp, so that no later push or call overwrites it.
C21_SlotsReserved ==
    (Fetching /\ cpu.calls # <<>>) =>
        \A o \in SlotOperands : Address(cpu, o) >= cpu.reg["rsp"]

\* fn f(p1) { return 1 + p1 }, f(5): the prologue reserves nothing, the
\* push of the left operand overwrites the slot of p1, and f returns 2
C21_PushOverwritesParameter ==
    /\ source.form = "frame"
    /\ source.a = 6
    /\ Returning
    /\ cpu.reg["rax"] = 2
    /\ cpu.memory[cpu.reg["rsp"] - 2 * WordBytes] = 1


\* C23: an assignment to a variable that already has a slot reads the
\* variable's previous value in its right-hand side and stores the result
\* where later reads load it: after `x = 5` and `x = x + 1` in one
\* function a read of x yields 6 (and 7 after `x = 5`, `x = 7`; y is 6
\* after `x = 5`, `y = x + 1`).
C23_AssignmentReadsPrevious ==
    (source.form = "assign" /\ Returning) => cpu.reg["rax"] = Wrap(source.a)

\* fn f() { x = 5; x = x + 1; return x }, f(): the second declaration
\* gives x a new slot before its right-hand side is evaluated, the read
\* of x loads that slot, which nothing has written, and f returns 1 when
\* the stack memory held 0
C23_ReadsNewSlot ==
    /\ source.form = "assign"
    /\ source.op = "compound"
    /\ Returning
    /\ cpu.reg["rax"] = 1
    /\ cpu.memory[cpu.reg["rsp"] - 2 * WordBytes] = 0
    /\ cpu.memory[cpu.reg["rsp"] - 3 * WordBytes] = 1


\* the value the last argument of the call has
LastValue == IF source.op \in {"list", "dict"} THEN HeapBase ELSE source.a
\* argument register i holds the value of argument i of f(1, ..., n - 1, e)
Holds(i) ==
    cpu.reg[ArgumentRegisters[i]] = IF i = source.a THEN LastValue ELSE i

\* C24: the argument registers already loaded for a call are preserved
\* while the remaining arguments are evaluated: for f(e1, ..., en) with n
\* at most the number of argument registers, register i holds the value
\* of ei at `call f`, also when a later argument contains a call, a
\* division or modulo, or a list or dict literal.
C24_ArgumentsPreserved ==
    (source.form = "preserve" /\ AtCallOf("f")) => \A i \in 1..source.a : Holds(i)

\* f(1, g(2)): the call of g loads its own argument into %rdi, and at
\* `call f` the first argument register holds 2
C24_CallReloadsFirst ==
    /\ source.form = "preserve"
    /\ source.op = "call"
    /\ source.a = 2
    /\ AtCallOf("f")
    /\ cpu.reg["rdi"] = 2
    /\ cpu.reg["rsi"] = 2


\* b^e in the machine's arithmetic, for e >= 0, by repeated squaring
RECURSIVE PowerOf(_, _)
PowerOf(b, e) ==
    IF e = 0 THEN 1
    ELSE LET h == PowerOf(b, e \div 2)
         IN  IF e % 2 = 0 THEN Wrap(h * h) ELSE Wrap(b * Wrap(h * h))

\* f has returned b ** e after n multiplications, with %rcx and %rdx as
\* they were before the expression
Powered(n) ==
    /\ cpu.imuls = n
    /\ cpu.reg["rax"] = PowerOf(source.a, n)
    /\ cpu.reg["rcx"] = 4
    /\ cpu.reg["rdx"] = 3

\* C25 as stated: the code of `b ** e` multiplies the accumulator by b once
\* per decrement of the exponent; for e >= 0 it terminates after exactly e
\* multiplications with b^e (mod 2^64) in %rax (1 when e = 0) and with %rcx
\* and %rdx restored; for e < 0 the loop does not terminate within |e|
\* iterations.
C25_PowerLoop ==
    source.form = "power" =>
        IF source.b >= 0
        THEN cpu.imuls <= source.b /\ (Returning => Powered(source.b))
        ELSE Returning => cpu.imuls > -source.b

\* C25, amended: for e >= 0 as stated; for e < 0 the exponent wraps and the
\* loop terminates after exactly 2^64 + e multiplications, with %rcx and
\* %rdx restored: more than |e| iterations except for the least integer,
\* where it is |e| itself.
C25_PowerLoopWraps ==
    source.form = "power" =>
        IF source.b >= 0
        THEN cpu.imuls <= source.b /\ (Returning => Powered(source.b))
        ELSE /\ cpu.imuls <= SIZE_MOD + source.b
             /\ Returning => Powered(SIZE_MOD + source.b)

\* 3 ** INT_MIN has returned after |INT_MIN| multiplications
C25_LeastExponent ==
    /\ source.form = "power"
    /\ source.a = 3
    /\ source.b = INT_MIN
    /\ Returning
    /\ cpu.imuls = -INT_MIN
    /\ cpu.reg["rcx"] = 4


\* the machine is at the `pop %rbp` of the function the top level called:
\* the statements of its body have been executed
AtEpilogue ==
    /\ Fetching
    /\ output[cpu.pc] = Ins1("pop", Reg("rbp"))
    /\ Len(cpu.calls) = 1

\* C29: expression evaluation is stack-neutral: every pop takes the value
\* its matching push stored, and after the expression of `fn f() { e }`
\* has been evaluated as many words have been popped as pushed: %rsp is
\* what it was before e (the value of %rbp), and only the return address
\* and the saved %rbp are left of what was pushed.
C29_StackNeutral ==
    /\ ~cpu.unmatched
    /\ (source.form = "neutral" /\ AtEpilogue) =>
           /\ cpu.reg["rsp"] = cpu.reg["rbp"]
           /\ Len(cpu.pushed) = 2

\* { g(1): 2, 3: g(4) } has been evaluated in f: calls while one and
\* while two words of the literal are on the stack, all popped again
C29_DictOfCalls ==
    /\ source.form = "neutral"
    /\ \E i \in 1..Len(output) : output[i] = Ins1("call", Symbol("dict_set"))
    /\ \E i \in 1..Len(output) : output[i] = Ins1("call", Symbol("g"))
    /\ AtEpilogue
    /\ cpu.reg["rsp"] = cpu.reg["rbp"]
    /\ Len(cpu.pushed) = 2
    /\ ~cpu.unmatched


---------------------------------------------------------------------------
(* The target backend: ABIConfig::getConfig, createTargetBackend and       *)
(* UnifiedX86_64Backend::getStackReservation.                              *)

\* model width of int
IntBits == 8
IntMax == 2^(IntBits - 1) - 1
IntMin == -(2^(IntBits - 1))
Ints == IntMin..IntMax

TargetPlatform == {"LINUX_X86_64", "MACOS_X86_64", "WINDOWS_X86_64"}

\* ABIConfig::getConfig
getConfig(platform) ==
    CASE platform = "MACOS_X86_64" ->
            [argRegs |-> <<"rdi", "rsi", "rdx", "rcx", "r8", "r9">>,
             calleeSaved |-> <<"rbx", "rbp", "r12", "r13", "r14", "r15">>,
             shadowSpace |-> 0, hasRedZone |-> TRUE,
             needsALForVarargs |-> FALSE, stackAlign |-> 16,
             symbolPrefix |-> "_", exeExtension |-> ""]
      [] platform = "WINDOWS_X86_64" ->
            [argRegs |-> <<"rcx", "rdx", "r8", "r9">>,
             calleeSaved |-> <<"rbx", "rbp", "rdi", "rsi", "r12", "r13", "r14", "r15">>,
             shadowSpace |-> 32, hasRedZone |-> FALSE,
             needsALForVarargs |-> TRUE, stackAlign |-> 16,
             symbolPrefix |-> "", exeExtension |-> ".exe"]
      [] OTHER ->
            [argRegs |-> <<"rdi", "rsi", "rdx", "rcx", "r8", "r9">>,
             calleeSaved |-> <<"rbx", "rbp", "r12", "r13", "r14", "r15">>,
             shadowSpace |-> 0, hasRedZone |-> TRUE,
             needsALForVarargs |-> FALSE, stackAlign |-> 16,
             symbolPrefix |-> "", exeExtension |-> ""]

\* UnifiedX86_64Backend(targetPlatform)
createTargetBackend(platform) ==
    [platform |-> platform, abiConfig |-> getConfig(platform)]

\* a / b of two ints, b > 0: the quotient truncated toward zero
TruncDiv(a, b) == IF a >= 0 THEN a \div b ELSE -((-a) \div b)

\* getStackReservation(bytes): the instructions the call can return.  The
\* arithmetic is in int; when a sum does not fit the behaviour is
\* undefined and the immediate may be any int.
getStackReservation(b, bytes) ==
    LET totalBytes == bytes + b.abiConfig.shadowSpace
        rounded == totalBytes + b.abiConfig.stackAlign - 1
        aligned == TruncDiv(rounded, b.abiConfig.stackAlign) * b.abiConfig.stackAlign
    IN  IF totalBytes \in Ints /\ rounded \in Ints
        THEN {Ins("subq", Imm(aligned), Reg("rsp"))}
        ELSE {Ins("subq", Imm(n), Reg("rsp")) : n \in Ints}

\* a call of createTargetBackend
CreateBackend ==
    /\ backend = NoBackend
    /\ \E platform \in TargetPlatform : backend' = createTargetBackend(platform)
    /\ UNCHANGED <<reservation, source, output, cpu, commonVars, listVars,
                   dictVars, rangeVars, parserVars>>

\* a call of backend->getStackReservation; the method is const, so one
\* call per backend shows every result
Reserve ==
    /\ backend # NoBackend
    /\ reservation = NoReservation
    /\ \E bytes \in Ints :
          \E text \in getStackReservation(backend, bytes) :
              reservation' = [bytes |-> bytes, text |-> text]
    /\ UNCHANGED <<backend, source, output, cpu, commonVars, listVars,
                   dictVars, rangeVars, parserVars>>

NextBackend == CreateBackend \/ Reserve

SpecBackend == Init /\ [][NextBackend]_vars

\* the call getStackReservation(bytes) has returned `subq $n, %rsp`
Reserved(bytes, n) ==
    /\ reservation.text.op = "subq"
    /\ reservation.bytes = bytes
    /\ reservation.text.src = Imm(n)

\* C22: for every target platform and every bytes >= 0, the reservation
\* the backend of createTargetBackend computes is a multiple of 16, at
\* least bytes plus the shadow space of the platform (32 on Windows, 0 on
\* Linux and macOS), and exceeds that sum by less than 16.
C22_ReservationAligned ==
    (reservation.text.op = "subq" /\ reservation.bytes >= 0) =>
        LET n == reservation.text.src.n
            needed == reservation.bytes +
                      (IF backend.platform = "WINDOWS_X86_64" THEN 32 ELSE 0)
        IN  /\ n % 16 = 0
            /\ n >= needed
            /\ n - needed < 16

\* getStackReservation(INT_MAX) on Linux: bytes + 15 does not fit an int,
\* and the call has returned what a build that wraps the sum computes, a
\* negative reservation
C22_LargestFrame ==
    /\ backend.platform = "LINUX_X86_64"
    /\ Reserved(IntMax, TruncDiv(IntMin + 14, 16) * 16)
    /\ reservation.text.src.n < 0


---------------------------------------------------------------------------
(* Lists that grow and shrink: lists long enough for list_append,          *)
(* list_insert and list_extend to double the buffer, and of a capacity     *)
(* that list_pop halves.                                                   *)

\* the caller grows a list up to this size: one more than list_new's
\* minimum capacity
MaxGrow == MinListCap + 1
\* the capacities asked of list_new; a list of the second one is halved by
\* list_pop to a capacity no other call gives
GrowCaps == {0, 2 * MinListCap + 3}
GrowIndexes == (-(MaxGrow + 1))..(MaxGrow + 1) \cup {INT_MIN, INT_MAX}
\* the list at p is live and its size is the number of its elements
Sized(p) == lists[p].live /\ lists[p].size = Len(lists[p].data)

\* list 1 is made by list_new and grown and shrunk; list 2 is made by
\* list_from_data and appended to list 1
NextGrow ==
    \/ \E cap \in GrowCaps : ListNew(1, cap)
    \/ \E e \in SeqsUpTo(Vals, 1), count \in {-1, 0, 1} :
          count <= Len(e) /\ ListFromData(2, e, count)
    \/ \E v \in Vals : Sized(1) /\ Below(1, MaxGrow) /\ ListAppend(1, v)
    \/ Sized(1) /\ ListPop(1)
    \/ \E i \in GrowIndexes, v \in Vals :
          Sized(1) /\ Below(1, MaxGrow) /\ ListInsert(1, i, v)
    \/ \E p2 \in ListAddrs :
          /\ Sized(1) /\ Sized(p2)
          /\ lists[1].size + lists[p2].size <= MaxGrow
          /\ ListExtend(1, p2)

SpecGrow == Init /\ [][NextGrow]_vars

\* the abstract sequence: v inserted before position i (0-based)
Inserted(s, i, v) == SubSeq(s, 1, i) \o <<v>> \o SubSeq(s, i + 1, Len(s))
\* the position an insert index designates in a sequence of n elements
PositionOf(i, n) == IF i < 0 THEN i + n ELSE i

\* the call has returned and left at call'.p the sequence t, within the
\* buffer, and every other list as it was
Left(t) ==
    /\ status' = "running"
    /\ mem' = mem
    /\ lists'[call'.p].data = t
    /\ lists'[call'.p].size = Len(t)
    /\ \A q \in ListAddrs \ {call'.p} : lists'[q] = lists[q]
\* C26: the list operations refine an abstract sequence: list_append,
\* list_pop, list_insert and list_extend that do not abort leave the
\* elements 0..size-1 equal to the sequence after append-at-end,
\* remove-and-return-last, insert-before-position-i (i = size allowed,
\* negative i counted from the end) and concatenation; growing and
\* shrinking the buffer changes no element; list_pop on an empty list
\* aborts.  A call aborts only for an index out of range, an empty list
\* or a buffer that could not be resized.
C26_RefinesSequence ==
    [][ LET c == call'
            l == lists[c.p]
            s == lists[c.p].data
        IN  IF c.op = "list_append"
            THEN \/ Left(Append(s, c.b))
                 \/ l.size >= l.capacity /\ status' = "abort"
            ELSE IF c.op = "list_pop"
            THEN IF l.size = 0 THEN status' = "abort"
                 ELSE \/ Left(SubSeq(s, 1, Len(s) - 1)) /\ ret' = s[Len(s)]
                      \/ l.capacity > 2 * MinListCap /\ status' = "abort"
            ELSE IF c.op = "list_insert"
            THEN IF PositionOf(c.a, l.size) \in 0..l.size
                 THEN \/ Left(Inserted(s, PositionOf(c.a, l.size), c.b))
                      \/ l.size >= l.capacity /\ status' = "abort"
                 ELSE status' = "abort"
            ELSE IF c.op = "list_extend"
            THEN \/ Left(s \o lists[c.q].data)
                 \/ l.size + lists[c.q].size > l.capacity /\ status' = "abort"
            ELSE TRUE ]_vars

\* list_pop has halved the buffer of an 11-element capacity around the one
\* element left, and returned the other one
C26_ShrunkByPop ==
    /\ call.op = "list_pop"
    /\ status = "running"
    /\ lists[call.p].capacity = CDiv(2 * MinListCap + 3, 2)
    /\ lists[call.p].data = <<1>>
    /\ lists[call.p].size = 1
    /\ ret = 0

\* C27: every list reachable through list_new, list_from_data,
\* list_append, list_pop, list_insert and list_extend (and the other
\* calls that make a list), called with any integer capacity or count and
\* returning normally, has 0 <= size <= capacity and capacity >= 4.
C27_SizeWithinCapacity ==
    status = "running" =>
        \A l \in {lists[p] : p \in ListAddrs} \cup {result} :
            l.live => 0 <= l.size /\ l.size <= l.capacity /\ l.capacity >= 4

\* list_from_data(elements, -1) has returned a list of size -1
C27_NegativeCount ==
    /\ call.op = "list_from_data"
    /\ call.a = -1
    /\ status = "running"
    /\ lists[call.p].live
    /\ lists[call.p].size = -1
    /\ lists[call.p].capacity = MinListCap


---------------------------------------------------------------------------
(* The structure of the dictionary *)

\* the entries of the table, chain after chain
Entries(d) == OldEntries(d.buckets, 1)

\* size counts the entries, every entry is in the bucket of its key's
\* hash, and no key occurs twice
DictWellFormed ==
    dict.live =>
        LET entries == Entries(dict)
        IN  /\ dict.size = Len(entries)
            /\ Len(dict.buckets) = dict.capacity
            /\ \A b \in 1..dict.capacity :
                   \A i \in 1..Len(dict.buckets[b]) :
                       1 + dict_hash(dict.buckets[b][i], dict.capacity) = b
            /\ \A i \in 1..Len(entries) : \A j \in 1..Len(entries) :
                   entries[i].key = entries[j].key => i = j

\* the capacity of a dictionary changes only in dict_set, to its double
CapacityDoubles ==
    (dict.live /\ dict'.live /\ dict'.capacity # dict.capacity) =>
        call'.op = "dict_set" /\ dict'.capacity = 2 * dict.capacity

\* C28: in every dictionary state reached by dict_new, dict_set_int,
\* dict_set_string, dict_remove_int, dict_remove_string and the resizes
\* they trigger, size is the number of entries over all chains, every
\* entry is in the bucket whose index is its key's hash modulo the
\* capacity, no two entries have the same key type and key, and the
\* capacity changes only by doubling inside dict_set.
C28_DictStructure == []DictWellFormed /\ [][CapacityDoubles]_vars

\* a key has been removed from a table that dict_set doubled: integer and
\* string keys are left, two of them in one chain
C28_RemovedAfterResize ==
    /\ call.op = "dict_remove"
    /\ status = "running"
    /\ dict.capacity = 2 * MinDictCap
    /\ dict.size = 5
    /\ \E b \in 1..dict.capacity : Len(dict.buckets[b]) >= 2
    /\ \E b \in 1..dict.capacity :
           \E i \in 1..Len(dict.buckets[b]) : dict.buckets[b][i].key.kt = "str"


---------------------------------------------------------------------------
(* Termination of the parser *)

\* one iteration of `while (!isAtEnd())` seen from outside: the loop is
\* running and the cursor changes
Iterate ==
    /\ Parsing
    /\ current' \in (0..Len(tokens)) \ {current}

\* parse() runs its loop until it returns or an exception leaves it: the
\* thread that called parse() is not suspended forever between iterations
SpecParserLive == SpecParser /\ WF_current(Iterate)

\* parseStatement() called with the cursor at pos
StatementAt(pos) == Invoke("parseStatement", tokens, pos)

\* the positions at which an iteration of the top-level loop or of a block
\* loop calls parseStatement()
StatementStarts ==
    { pos \in 0..Len(tokens) :
        ~isAtEnd(tokens, pos) /\ peek(tokens, pos).type \notin {"NEWLINE", "RBRACE"} }

\* the cursor, also the one a statement or synchronize() leaves behind,
\* is a position of the token sequence
CursorInRange ==
    /\ current \in 0..Len(tokens)
    /\ \A pos \in 0..Len(tokens) : StatementAt(pos).pos \in 0..Len(tokens)

\* a statement that is parsed consumes at least one token
StatementConsumes ==
    \A pos \in StatementStarts : StatementAt(pos).ok => StatementAt(pos).pos > pos

\* the iteration the top-level loop is about to run moves the cursor
\* forward, whether it skips a newline, keeps a statement or throws
LoopProgresses ==
    Parsing =>
        IF peek(tokens, current).type = "NEWLINE"
        THEN advance(tokens, current) > current
        ELSE StatementAt(current).pos > current

=============================================================================
